---- MODULE Spec2Model ----
(***************************************************************************)
(* Remote control of Canon EOS cameras through a Behringer X-Touch Mini.   *)
(*                                                                         *)
(* Three programs are modelled:                                            *)
(*   - the device owner (Camera thread and MQTT session of the camera      *)
(*     host),                                                              *)
(*   - the observer (CameraManager, MessageBus and MiniMidiHandler of the  *)
(*     GUI host),                                                          *)
(*   - the control surface driver (XTouchMini).                            *)
(* Python lists are 0-based; TLA+ sequences are 1-based.  The operators    *)
(* at, last and index keep Python's conventions so that every index in     *)
(* this module is the index the source computes.                           *)
(***************************************************************************)
EXTENDS Integers, Sequences, FiniteSets, TLC

(***************************************************************************)
(* Python helpers                                                          *)
(***************************************************************************)

\* Python's None, and the JSON null it travels as.
None == "None"

\* list.index raises ValueError; callers catch it and use idx = None.
NotFound == -1

\* seq[i] with a 0-based, non-negative i
at(seq, i) == seq[i + 1]

\* seq[-1]
last(seq) == seq[Len(seq)]

\* seq[a:-b] for a >= 0, b > 0
slice(seq, a, b) == SubSeq(seq, a + 1, Len(seq) - b)

\* list.index(v): the first 0-based position holding v, NotFound if absent
index(seq, v) ==
    IF \E i \in 1..Len(seq) : seq[i] = v
    THEN (CHOOSE i \in 1..Len(seq) : seq[i] = v /\ \A j \in 1..(i - 1) : seq[j] # v) - 1
    ELSE NotFound

\* v in seq
contains(seq, v) == \E i \in 1..Len(seq) : seq[i] = v

(***************************************************************************)
(* xtouchmini.py: tables                                                   *)
(***************************************************************************)

LED_STEPS ==
    <<-1, 0, 6, 11, 16, 22, 27, 32, 38, 43, 48, 54, 59, 64, 65, 70, 76, 82, 87,
      93, 99, 105, 110, 116, 122, 127, 128>>

VALUE_MID == 64

\* The keys of ENCODER_TO_FUNCTION in the dict's (insertion) order, which is
\* the order in which propagate_to_midi visits them.
FUNCTIONS ==
    <<"focus", "exposurecompensation", "aperture", "shutterspeed", "iso",
      "colortemperature", "whitebalanceadjusta", "whitebalanceadjustb">>

ENCODER_TO_FUNCTION ==
    [focus |-> 0, exposurecompensation |-> 1, aperture |-> 2, shutterspeed |-> 3,
     iso |-> 4, colortemperature |-> 5, whitebalanceadjusta |-> 6,
     whitebalanceadjustb |-> 7]

\* range(0, 8): the encoders of the surface
Encoders == 0..7

\* results_for_function('colortemperature'): [str(x) for x in range(2500, 10001, 100)]
COLORTEMPERATURES ==
    <<"2500", "2600", "2700", "2800", "2900", "3000", "3100", "3200", "3300", "3400",
      "3500", "3600", "3700", "3800", "3900", "4000", "4100", "4200", "4300", "4400",
      "4500", "4600", "4700", "4800", "4900", "5000", "5100", "5200", "5300", "5400",
      "5500", "5600", "5700", "5800", "5900", "6000", "6100", "6200", "6300", "6400",
      "6500", "6600", "6700", "6800", "6900", "7000", "7100", "7200", "7300", "7400",
      "7500", "7600", "7700", "7800", "7900", "8000", "8100", "8200", "8300", "8400",
      "8500", "8600", "8700", "8800", "8900", "9000", "9100", "9200", "9300", "9400",
      "9500", "9600", "9700", "9800", "9900", "10000">>

\* The value list of a function; the source returns None for 'focus', which
\* is never indexed, and that is the empty sequence here.
results_for_function(function) ==
    CASE function = "exposurecompensation" ->
           <<"-3", "-2.6", "-2.3", "-2", "-1.6", "-1.3", "-1", "-0.6", "-0.3", "0",
             "0.3", "0.6", "1", "1.3", "1.6", "2", "2.3", "2.6", "3">>
      [] function = "aperture" ->
           <<"1", "1.2", "1.4", "1.6", "1.8", "2", "2.2", "2.5", "2.8", "3.2", "3.5",
             "4", "4.5", "5", "5.6", "6.3", "7.1", "8", "9", "10", "11", "13", "14",
             "16", "18", "20", "22">>
      [] function = "shutterspeed" ->
           <<"1/1000", "1/800", "1/640", "1/500", "1/400", "1/320", "1/250", "1/200",
             "1/160", "1/125", "1/100", "1/80", "1/60", "1/50", "1/40", "1/30", "1/25",
             "1/20", "1/15", "1/13", "1/10", "1/8", "1/6">>
      [] function = "colortemperature" -> COLORTEMPERATURES
      [] function \in {"whitebalanceadjusta", "whitebalanceadjustb"} ->
           <<"-9", "-8", "-7", "-6", "-5", "-4", "-3", "-2", "-1", "0", "1", "2", "3",
             "4", "5", "6", "7", "8", "9">>
      [] function = "iso" ->
           <<"Auto", "100", "125", "160", "200", "250", "320", "400", "500", "640",
             "800", "1000", "1250", "1600", "2000", "2500", "3200", "4000", "5000",
             "6400", "8000", "10000", "12800", "16000", "20000", "25600">>
      [] OTHER -> <<>>

\* Every encoder has a function in this table, so candidates[0] always exists.
function_for_encoder(encoder) == at(FUNCTIONS, encoder)

\* XTouchMini.results, built once in __init__
results(encoder) == results_for_function(function_for_encoder(encoder))

\* The encoders whose function has a value list (all but 'focus')
ListEncoders == {e \in Encoders : function_for_encoder(e) # "focus"}

\* range_for without the sub-ranges
range_for_full(encoder) == LED_STEPS

\* XTouchMini.range_for.  int(x * 127 / 76.0) truncates a non-negative
\* quotient, which is the integer division below.
range_for(encoder) ==
    IF encoder = ENCODER_TO_FUNCTION.exposurecompensation THEN slice(LED_STEPS, 4, 4)
    ELSE IF encoder \in {ENCODER_TO_FUNCTION.whitebalanceadjusta,
                         ENCODER_TO_FUNCTION.whitebalanceadjustb}
         THEN slice(LED_STEPS, 4, 4)
    ELSE IF encoder = ENCODER_TO_FUNCTION.shutterspeed THEN slice(LED_STEPS, 0, 5)
    ELSE IF encoder = ENCODER_TO_FUNCTION.colortemperature
         THEN [x \in 1..76 |-> ((x - 1) * 127) \div 76]
    ELSE LED_STEPS

\* The members of a sub-range, as a set
range_set(encoder) == {range_for(encoder)[i] : i \in 1..Len(range_for(encoder))}

(***************************************************************************)
(* xtouchmini.py: messages to the surface                                  *)
(* A message is <<channel, control, value>> of a control_change.           *)
(***************************************************************************)

\* XTouchMini.leds_special: the value of each LED operation
led_code(what) ==
    CASE what = "blink-left" -> 14
      [] what = "blink-right" -> 26
      [] what = "off" -> 0
      [] what = "all-on" -> 27
      [] what = "blink-all" -> 28
      [] what = "blink-center" -> 20

\* XTouchMini.leds_special: the message it sends
leds_special(encoder, what) == <<0, encoder + 1 + 8, led_code(what)>>

\* Every value sent as a ring-position control-change, the sentinels too
set_value_message_plain(encoder, val) == <<10, encoder + 1, val>>

\* The message a ring position is sent as by do_set_value
set_value_message(encoder, val) ==
    IF val = -1 THEN leds_special(encoder, "blink-left")
    ELSE IF val = 128 THEN leds_special(encoder, "blink-right")
    ELSE <<10, encoder + 1, val>>

\* The regular LED mapping of the ring, as the driver documents it: the
\* indication and the first and last ring position shown as it
REGULAR_LED_MAPPING ==
    << <<"LED1", 0, 5>>, <<"LED1+2", 6, 10>>, <<"LED2", 11, 15>>,
       <<"LED2+3", 16, 21>>, <<"LED3", 22, 26>>, <<"LED3+4", 27, 31>>,
       <<"LED4", 32, 37>>, <<"LED4+5", 38, 42>>, <<"LED5", 43, 47>>,
       <<"LED5+6", 48, 53>>, <<"LED6", 54, 58>>, <<"LED6+7", 59, 63>>,
       <<"LED7", 64, 64>>, <<"LED7+8", 65, 69>>, <<"LED8", 70, 75>>,
       <<"LED8+9", 76, 81>>, <<"LED9", 82, 86>>, <<"LED9+10", 87, 92>>,
       <<"LED10", 93, 98>>, <<"LED10+11", 99, 104>>, <<"LED11", 105, 109>>,
       <<"LED11+12", 110, 115>>, <<"LED12", 116, 121>>,
       <<"LED12+13", 122, 126>>, <<"LED13", 127, 127>> >>

\* The rows of the regular LED mapping that list a ring position
rows_for(val) ==
    {i \in 1..Len(REGULAR_LED_MAPPING) :
        REGULAR_LED_MAPPING[i][2] <= val /\ val <= REGULAR_LED_MAPPING[i][3]}

\* A uniform mapping of the ring positions to the indications, which the
\* hardware does not have
segment_of_uniform(val) == (val + 1) \div 5

\* The indication a value given to do_set_value is shown as, counted from the
\* left: 0 is the blinking leftmost LED, 1..25 are the rows of the regular LED
\* mapping, 26 is the blinking rightmost LED
segment_of(val) ==
    IF val = -1 THEN 0
    ELSE IF val = 128 THEN Len(REGULAR_LED_MAPPING) + 1
    ELSE CHOOSE i \in rows_for(val) : TRUE

\* The name of that indication
led_for(val) ==
    IF val = -1 THEN "blink-left"
    ELSE IF val = 128 THEN "blink-right"
    ELSE REGULAR_LED_MAPPING[segment_of(val)][1]

(***************************************************************************)
(* xtouchmini.py: stepping                                                 *)
(***************************************************************************)

\* on_midi: the signed step of a relative encoder message
delta_of(value) == IF value > 120 THEN value - 128 ELSE value

\* A driver that would leave the stored position where it is
next_value_kept(encoder, delta, fader) == fader

\* A driver that would step by the raw delta, without the sub-range
next_value_unclipped(encoder, delta, fader) == fader + delta

\* A driver that would skip three entries on a hard turn, as the lines
\* commented out in do_next_value_for do
next_value_accelerated(encoder, delta, fader) ==
    LET allowed == range_for(encoder)
        up == SelectSeq(allowed, LAMBDA x : x > fader)
        down == SelectSeq(allowed, LAMBDA x : x < fader)
    IN  IF delta > 0
        THEN IF Len(up) > 0
             THEN at(up, IF Len(up) > 3 /\ delta > 2 THEN 3 ELSE 0)
             ELSE last(allowed)
        ELSE IF Len(down) > 0
             THEN down[IF Len(down) > 3 /\ delta < -2 THEN Len(down) - 3 ELSE Len(down)]
             ELSE IF delta < 0 THEN at(allowed, 0) ELSE last(allowed)

\* do_next_value_for: the position handed to do_set_value, given the stored
\* position.  Both list comprehensions keep the order of the sub-range; an
\* empty candidate list raises IndexError, caught by the except clause.
next_value(encoder, delta, fader) ==
    LET allowed == range_for(encoder)
        up == SelectSeq(allowed, LAMBDA x : x > fader)
        down == SelectSeq(allowed, LAMBDA x : x < fader)
    IN  IF delta > 0
        THEN IF Len(up) > 0 THEN at(up, 0) ELSE last(allowed)
        ELSE IF Len(down) > 0 THEN last(down)
             ELSE IF delta < 0 THEN at(allowed, 0) ELSE last(allowed)

(***************************************************************************)
(* The two directions of the value <-> position mapping                    *)
(***************************************************************************)

\* A value that is not in the value list rendered at the central position
midi_val_for_fallback(key, val) ==
    LET encoder == ENCODER_TO_FUNCTION[key]
        idx == index(results_for_function(key), val)
    IN  IF idx = NotFound THEN [found |-> TRUE, error |-> FALSE, pos |-> VALUE_MID]
        ELSE IF idx >= Len(range_for(encoder))
             THEN [found |-> TRUE, error |-> TRUE, pos |-> 0]
        ELSE [found |-> TRUE, error |-> FALSE, pos |-> at(range_for(encoder), idx)]

\* A position computed in proportion to the index instead of looked up in
\* range_for
midi_val_for_linear(key, val) ==
    LET idx == index(results_for_function(key), val)
    IN  IF idx = NotFound THEN [found |-> FALSE, error |-> FALSE, pos |-> 0]
        ELSE [found |-> TRUE, error |-> FALSE,
              pos |-> (idx * 127) \div (Len(results_for_function(key)) - 1)]

\* propagate_to_midi: the position a value of a function is rendered at.
\*   found: the value is in the value list (idx is not None)
\*   error: range_for(encoder)[idx] raises IndexError
\*   pos:   midi_val, meaningful when found and not error
midi_val_for(key, val) ==
    LET encoder == ENCODER_TO_FUNCTION[key]
        idx == index(results_for_function(key), val)
    IN  IF idx = NotFound THEN [found |-> FALSE, error |-> FALSE, pos |-> 0]
        ELSE IF idx >= Len(range_for(encoder))
             THEN [found |-> TRUE, error |-> TRUE, pos |-> 0]
        ELSE [found |-> TRUE, error |-> FALSE, pos |-> at(range_for(encoder), idx)]

\* on_midi: the value a stored position of a list-backed encoder stands for.
\*   error: range_for(encoder).index raises ValueError, or results[encoder][idx]
\*          raises IndexError
value_for_position(encoder, fader) ==
    LET idx == index(range_for(encoder), fader)
    IN  IF idx = NotFound \/ idx >= Len(results(encoder))
        THEN [error |-> TRUE, val |-> None]
        ELSE [error |-> FALSE, val |-> at(results(encoder), idx)]

(***************************************************************************)
(* Bounds of the model                                                     *)
(***************************************************************************)

\* The inputs of the environment in one behaviour: changes on the body of the
\* camera, operator actions on the surface and in the GUI, selections of
\* another camera, set-requests of other clients
MaxEvents == 2

(***************************************************************************)
(* The devices and their settings                                          *)
(***************************************************************************)

\* The camera names the observer has a CameraManager for; each has an owner.
Cameras == {"c1"}

\* MiniMidiHandler._fake_camera
Fake == "fake"

PROPS_RO == <<"cameramodel", "lensname", "autoexposuremode", "autoexposuremodedial">>

PROPS_WO == <<"manualfocusdrive">>

PROPS_RW ==
    <<"aperture", "shutterspeed", "exposurecompensation", "iso", "movieservoaf",
      "whitebalance", "colortemperature", "whitebalanceadjusta", "whitebalanceadjustb">>

elements(seq) == {seq[i] : i \in 1..Len(seq)}

\* The keys of a status: PROPS_RO + PROPS_RW
StatusProps == elements(PROPS_RO) \cup elements(PROPS_RW)

\* The settings a set-request may name: PROPS_RW + PROPS_WO
WritableProps == elements(PROPS_RW) \cup elements(PROPS_WO)

\* The widgets of the camera configuration that the owner reads or writes
CamProps == StatusProps \cup WritableProps

\* The keys of CameraManager._allowed
AllowedKeys ==
    {"aperture", "shutterspeed", "exposurecompensation", "iso", "manualfocusdrive",
     "movieservoaf", "whitebalance", "colortemperature", "whitebalanceadjusta",
     "whitebalanceadjustb"}

\* w.get_choices() of the camera's widgets: the camera is an external device,
\* and these are the choices it is taken to offer.  '1/1250' is a shutter
\* speed outside the surface's value list; '1/6' is the last entry of it.
choices(prop) ==
    CASE prop = "aperture" -> <<"1", "4", "4.5", "22">>
      [] prop = "shutterspeed" -> <<"1/1250", "1/50", "1/40", "1/6">>
      [] prop = "exposurecompensation" -> <<"0", "0.3">>
      [] prop = "iso" -> <<"Auto", "100", "125", "25600">>
      [] prop = "movieservoaf" -> <<"Off", "On">>
      [] prop = "whitebalance" -> <<"Auto", "Daylight", "Color Temperature">>
      [] prop = "colortemperature" -> <<"5200", "5300">>
      [] prop = "whitebalanceadjusta" -> <<"-1", "0", "1">>
      [] prop = "whitebalanceadjustb" -> <<"0", "1">>
      [] prop = "manualfocusdrive" ->
           <<"Near 1", "Near 2", "Near 3", "None", "Far 1", "Far 2", "Far 3">>
      [] OTHER -> <<>>

\* The settings that are changed on the body of the camera
ChangedOnBody == {"shutterspeed", "whitebalance"}

\* The configuration of a camera when its owner starts
InitialConfig ==
    [p \in CamProps |->
        CASE p = "cameramodel" -> "Canon EOS R6"
          [] p = "lensname" -> "RF24-240mm"
          [] p = "autoexposuremode" -> "Manual"
          [] p = "autoexposuremodedial" -> "M"
          [] p = "aperture" -> "4"
          [] p = "shutterspeed" -> "1/50"
          [] p = "exposurecompensation" -> "0"
          [] p = "iso" -> "100"
          [] p = "movieservoaf" -> "Off"
          [] p = "whitebalance" -> "Color Temperature"
          [] p = "colortemperature" -> "5200"
          [] p = "whitebalanceadjusta" -> "0"
          [] p = "whitebalanceadjustb" -> "0"
          [] p = "manualfocusdrive" -> "None"]

\* CameraManager._data after __init__
Placeholders ==
    [p \in StatusProps |->
        CASE p = "cameramodel" -> None
          [] p = "lensname" -> None
          [] p = "autoexposuremode" -> "<aemode>"
          [] p = "autoexposuremodedial" -> "<dial>"
          [] p = "aperture" -> "<aperture>"
          [] p = "shutterspeed" -> "<shutter>"
          [] p = "exposurecompensation" -> "<exp>"
          [] p = "iso" -> "<iso>"
          [] p = "movieservoaf" -> "<af>"
          [] p = "whitebalance" -> "<wb>"
          [] p = "colortemperature" -> "<color>"
          [] p = "whitebalanceadjusta" -> "-1"
          [] p = "whitebalanceadjustb" -> "0"]

\* Camera.old_status = None: a status that equals no status the camera has
NoStatus == [p \in StatusProps |-> "<no status>"]

(***************************************************************************)
(* State                                                                   *)
(***************************************************************************)

VARIABLES
    \* the device owner, per camera
    cam,          \* the camera's configuration (gphoto2 widgets)
    old_status,   \* Camera.old_status
    camQueue,     \* Camera.queue: <<what, value>> commands
    camEvent,     \* a GP_EVENT_UNKNOWN is waiting in wait_for_event
    session,      \* "down" or "up": the owner's MQTT session
    \* messages in flight
    mqIn,         \* camera/+/current, camera/+/allowed and camera/+/status,
                  \* to the observer, in the order of their publication
    mqSet,        \* camera/<c>/set/<prop>, to the owner of c
    mqDump,       \* camera/dump-all, to the owner of c
    \* the observer
    busUp,        \* MessageBus.main has subscribed (start_event is set)
    data,         \* CameraManager._data, per camera
    allowed,      \* CameraManager._allowed, per camera
    status,       \* CameraManager._status, per camera
    target,       \* MiniMidiHandler.target_camera
    selected_mode,\* CameraManager._selected_mode, per camera
    \* the surface
    faders,       \* XTouchMini.faders
    shown,        \* the last message the surface received for each encoder
    \* threads
    rp,           \* the propagate_to_midi pass of the transport (T) and
                  \* hardware (H) thread
    hw,           \* the hardware callback in progress
    \* bookkeeping of the bound
    budget,       \* the inputs of the environment that are left
    \* what has happened so far, for the statements about it
    history,
    \* inputs and results of the pure mappings
    arg, res

ownerVars == <<cam, old_status, camQueue, camEvent, session>>

mqttVars == <<mqIn, mqSet, mqDump>>

observerVars == <<busUp, data, allowed, status, target, selected_mode>>

surfaceVars == <<faders, shown>>

threadVars == <<rp, hw>>

boundVars == <<budget>>

pureVars == <<arg, res>>

machineVars == <<ownerVars, mqttVars, observerVars, surfaceVars, threadVars, boundVars>>

vars == <<machineVars, history, pureVars>>

\* No propagate_to_midi pass in progress
RenderIdle == [active |-> FALSE, enc |-> 0, phase |-> "model", val |-> 0]

\* propagate_to_midi has been entered
RenderBegin == [active |-> TRUE, enc |-> 0, phase |-> "model", val |-> 0]

\* The hardware callback thread waits for a message
HwIdle == [pc |-> "idle", enc |-> 0, delta |-> 0, val |-> 0]

\* No input of a pure mapping
NoArg == [enc |-> 0, idx |-> 0, stage |-> "machine"]

NoRes == [error |-> FALSE, pos |-> 0, val |-> None]

\* The state after the constructors: XTouchMini.__init__ sets every fader to
\* VALUE_MID, and MiniMidiHandler.__init__ selects the fake camera, whose
\* render pass switches every ring off.
InitMachine ==
    /\ cam = [c \in Cameras |-> InitialConfig]
    /\ old_status = [c \in Cameras |-> NoStatus]
    /\ camQueue = [c \in Cameras |-> <<>>]
    /\ camEvent = [c \in Cameras |-> FALSE]
    /\ session = [c \in Cameras |-> "down"]
    /\ mqIn = <<>>
    /\ mqSet = [c \in Cameras |-> <<>>]
    /\ mqDump = [c \in Cameras |-> 0]
    /\ busUp = FALSE
    /\ data = [c \in Cameras |-> Placeholders]
    /\ allowed = [c \in Cameras |-> [k \in AllowedKeys |-> <<>>]]
    /\ status = [c \in Cameras |-> None]
    /\ target = Fake
    /\ selected_mode = [c \in Cameras |-> None]
    /\ faders = [e \in Encoders |-> VALUE_MID]
    /\ shown = [e \in Encoders |-> leds_special(e, "off")]
    /\ rp = [T |-> RenderIdle, H |-> RenderIdle]
    /\ hw = HwIdle

\* No set-request of another client is followed
NoRequest ==
    [state |-> "none", c |-> None, prop |-> None, asked |-> None, value |-> None,
     ring |-> <<>>]

\* Nothing has happened
NoHistory ==
    [clean |-> FALSE,
     sent |-> [c \in Cameras |-> <<>>],
     asked |-> [c \in Cameras |-> 0],
     served |-> [c \in Cameras |-> 0],
     request |-> NoRequest,
     left |-> None,
     heard |-> FALSE,
     fresh |-> FALSE]

Init == InitMachine /\ budget = MaxEvents /\ history = NoHistory /\ arg = NoArg /\ res = NoRes

(***************************************************************************)
(* History                                                                 *)
(*   clean:  the transport thread has taken a snapshot of the selected     *)
(*           camera, and the hardware callback thread has done nothing     *)
(*           since                                                         *)
(*   sent:   the last snapshots each owner has published to the observer,  *)
(*           oldest first                                                  *)
(*   asked:  the dump-all messages each owner has received                 *)
(*   served: the DUMP commands each camera thread has carried out          *)
(*   request: the last set-request of another client, with the value it    *)
(*           asked for, the value the camera had and the message the ring  *)
(*           of the setting showed when it was made:                       *)
(*           "asked", then "rejected" by apply_command, then "published"   *)
(*           when the owner has published a snapshot after that; forgotten *)
(*           when the hardware callback thread does anything               *)
(*   left:   the camera that was selected before the last select_camera    *)
(*   heard:  a message of camera/+/current or camera/+/status of the       *)
(*           camera that was left has been taken by the observer since     *)
(*   fresh:  select_camera has been called, and the operator has not       *)
(*           touched an encoder or a button of the surface since           *)
(***************************************************************************)

\* The snapshots of an owner that are remembered
MaxSent == 3

\* A step of the hardware callback thread
hardware_event == [history EXCEPT !.clean = FALSE, !.request = NoRequest, !.fresh = FALSE]

\* The owner of c publishes a snapshot to the observer
published(request, c) ==
    IF request.state = "rejected" /\ request.c = c
    THEN [request EXCEPT !.state = "published"] ELSE request

\* A step of a propagate_to_midi pass on thread th
render_event(th) ==
    IF th = "H" THEN [hardware_event EXCEPT !.fresh = history.fresh] ELSE history

\* The owner of c publishes a snapshot
remember(seq, snapshot) ==
    IF Len(seq) < MaxSent THEN Append(seq, snapshot) ELSE Append(Tail(seq), snapshot)

(***************************************************************************)
(* The MQTT broker                                                         *)
(***************************************************************************)

\* A message published on a topic the observer subscribes to reaches it only
\* once it has subscribed; nothing is retained.  The messages reach the
\* observer's network thread one at a time, in the order of publication.
to_observer(queue, message) == IF busUp THEN Append(queue, message) ELSE queue

\* Payloads are JSON objects whose values are strings, lists of strings or
\* null; they are carried as the objects themselves.

(***************************************************************************)
(* The device owner: Camera and main of the camera host                    *)
(***************************************************************************)

\* A widget the configuration of the camera does not have:
\* get_child_by_name raises GPhoto2Error
NoWidget == "<no widget>"

\* Camera.on_config_changed: the status it builds from the configuration
status_of(cfg) == [p \in StatusProps |-> IF cfg[p] = NoWidget THEN None ELSE cfg[p]]

\* Camera.apply_command, 'DUMP': the allowed-values object.  The read-only
\* settings are text widgets, whose get_choices raises GPhoto2Error.
allowed_of(cfg) == [p \in {q \in elements(PROPS_RW) : cfg[q] # NoWidget} |-> choices(p)]

\* An owner that would write any value of a writable setting
is_applied_unchecked(cfg, what, value) ==
    /\ what \in WritableProps
    /\ cfg[what] # value

\* Camera.apply_command for one setting, without the colour-temperature
\* follow-up: whether the value is written to the camera
is_applied(cfg, what, value) ==
    /\ what \in WritableProps
    /\ cfg[what] # NoWidget
    /\ contains(choices(what), value)
    /\ cfg[what] # value

\* Camera.apply_command for a setting: the configuration it leaves
apply_command(cfg, what, value) ==
    IF ~is_applied(cfg, what, value) THEN cfg
    ELSE LET set == [cfg EXCEPT ![what] = value]
         IN  IF what = "colortemperature"
                /\ is_applied(set, "whitebalance", "Color Temperature")
             THEN [set EXCEPT !["whitebalance"] = "Color Temperature"]
             ELSE set

\* main: a session starts: 'online' is published, a DUMP is queued and the
\* camera thread runs.
OwnerStart(c) ==
    /\ session[c] = "down"
    /\ session' = [session EXCEPT ![c] = "up"]
    /\ mqIn' = to_observer(mqIn, [topic |-> "status", cam |-> c, payload |-> "online"])
    /\ camQueue' = [camQueue EXCEPT ![c] = Append(@, <<"DUMP", None>>)]
    /\ UNCHANGED <<cam, old_status, camEvent, mqSet, mqDump>>
    /\ UNCHANGED <<observerVars, surfaceVars, threadVars, boundVars, pureVars, history>>

\* The camera itself: a setting is changed on its body, and it reports an event.
CameraChange(c, prop, value) ==
    /\ session[c] = "up"
    /\ budget > 0
    /\ cam[c][prop] # value
    /\ cam' = [cam EXCEPT ![c][prop] = value]
    /\ camEvent' = [camEvent EXCEPT ![c] = TRUE]
    /\ budget' = budget - 1
    /\ UNCHANGED <<old_status, camQueue, session>>
    /\ UNCHANGED <<mqttVars, observerVars, surfaceVars, threadVars, pureVars, history>>

\* do_republish: a dump-all message queues a DUMP
DoRepublish(c) ==
    /\ session[c] = "up"
    /\ mqDump[c] > 0
    /\ mqDump' = [mqDump EXCEPT ![c] = @ - 1]
    /\ camQueue' = [camQueue EXCEPT ![c] = Append(@, <<"DUMP", None>>)]
    /\ UNCHANGED <<cam, old_status, camEvent, session, mqIn, mqSet>>
    /\ UNCHANGED <<observerVars, surfaceVars, threadVars, boundVars, pureVars>>
    /\ history' = [history EXCEPT !.asked[c] = @ + 1]

\* push_to_camera: a set-request is queued when its topic names a writable
\* setting, and dropped otherwise
PushToCamera(c) ==
    /\ session[c] = "up"
    /\ mqSet[c] # <<>>
    /\ mqSet' = [mqSet EXCEPT ![c] = Tail(@)]
    /\ camQueue' = [camQueue EXCEPT ![c] =
                        IF Head(mqSet[c])[1] \in WritableProps
                        THEN Append(@, Head(mqSet[c]))
                        ELSE @]
    /\ UNCHANGED <<cam, old_status, camEvent, session, mqIn, mqDump>>
    /\ UNCHANGED <<observerVars, surfaceVars, threadVars, boundVars, pureVars, history>>

\* Camera.run, GP_EVENT_UNKNOWN: on_config_changed publishes the status when
\* it differs from the last one published
CameraEvent(c) ==
    /\ session[c] = "up"
    /\ camEvent[c]
    /\ camEvent' = [camEvent EXCEPT ![c] = FALSE]
    /\ IF old_status[c] # status_of(cam[c])
       THEN /\ old_status' = [old_status EXCEPT ![c] = status_of(cam[c])]
            /\ mqIn' = to_observer(mqIn, [topic |-> "current", cam |-> c,
                                           payload |-> status_of(cam[c])])
       ELSE UNCHANGED <<old_status, mqIn>>
    /\ UNCHANGED <<cam, camQueue, session, mqSet, mqDump>>
    /\ UNCHANGED <<observerVars, surfaceVars, threadVars, boundVars, pureVars>>
    /\ history' = IF old_status[c] # status_of(cam[c]) /\ busUp
                  THEN [history EXCEPT !.sent[c] = remember(@, status_of(cam[c])),
                                       !.request = published(@, c)]
                  ELSE history

\* An owner that would not forget the last status at a 'DUMP': the status is
\* published only when it has changed
CameraDumpIfChanged(c) ==
    /\ session[c] = "up"
    /\ camQueue[c] # <<>>
    /\ Head(camQueue[c])[1] = "DUMP"
    /\ camQueue' = [camQueue EXCEPT ![c] = Tail(@)]
    /\ old_status' = [old_status EXCEPT ![c] = status_of(cam[c])]
    /\ mqIn' = to_observer(IF old_status[c] # status_of(cam[c])
                           THEN to_observer(mqIn, [topic |-> "current", cam |-> c,
                                                   payload |-> status_of(cam[c])])
                           ELSE mqIn,
                   [topic |-> "allowed", cam |-> c, payload |-> allowed_of(cam[c])])
    /\ UNCHANGED <<cam, camEvent, session, mqSet, mqDump>>
    /\ UNCHANGED <<observerVars, surfaceVars, threadVars, boundVars, pureVars>>
    /\ history' = [history EXCEPT !.served[c] = @ + 1]

\* Camera.run, a queued 'DUMP': apply_command forgets the last status, so
\* on_config_changed publishes the whole status, and then publishes the
\* allowed values
CameraDump(c) ==
    /\ session[c] = "up"
    /\ camQueue[c] # <<>>
    /\ Head(camQueue[c])[1] = "DUMP"
    /\ camQueue' = [camQueue EXCEPT ![c] = Tail(@)]
    /\ old_status' = [old_status EXCEPT ![c] = status_of(cam[c])]
    /\ mqIn' = to_observer(to_observer(mqIn,
                   [topic |-> "current", cam |-> c, payload |-> status_of(cam[c])]),
                   [topic |-> "allowed", cam |-> c, payload |-> allowed_of(cam[c])])
    /\ UNCHANGED <<cam, camEvent, session, mqSet, mqDump>>
    /\ UNCHANGED <<observerVars, surfaceVars, threadVars, boundVars, pureVars>>
    /\ history' = [history EXCEPT !.served[c] = @ + 1,
                                   !.sent[c] = IF busUp THEN remember(@, status_of(cam[c])) ELSE @,
                                   !.request = IF busUp THEN published(@, c) ELSE @]

\* Camera.run, a queued set-request: apply_command; the camera reports an
\* event for what was written
CameraApply(c) ==
    /\ session[c] = "up"
    /\ camQueue[c] # <<>>
    /\ Head(camQueue[c])[1] # "DUMP"
    /\ camQueue' = [camQueue EXCEPT ![c] = Tail(@)]
    /\ LET what == Head(camQueue[c])[1]
           value == Head(camQueue[c])[2]
       IN  /\ cam' = [cam EXCEPT ![c] = apply_command(@, what, value)]
           /\ camEvent' = [camEvent EXCEPT ![c] = @ \/ is_applied(cam[c], what, value)]
           /\ history' = IF /\ history.request.state = "asked"
                            /\ history.request.c = c
                            /\ <<what, value>> = <<history.request.prop, history.request.asked>>
                            /\ ~is_applied(cam[c], what, value)
                         THEN [history EXCEPT !.request.state = "rejected"]
                         ELSE history
    /\ UNCHANGED <<old_status, session>>
    /\ UNCHANGED <<mqttVars, observerVars, surfaceVars, threadVars, boundVars, pureVars>>

\* Another MQTT client publishes a set-request the camera does not offer
ExternalSet(c, prop, value) ==
    /\ session[c] = "up"
    /\ budget > 0
    /\ budget' = budget - 1
    /\ mqSet' = [mqSet EXCEPT ![c] = Append(@, <<prop, value>>)]
    /\ UNCHANGED <<mqIn, mqDump>>
    /\ UNCHANGED <<ownerVars, observerVars, surfaceVars, threadVars, pureVars>>
    /\ history' = [history EXCEPT !.request =
                       [state |-> "asked", c |-> c, prop |-> prop, asked |-> value,
                        value |-> IF prop \in CamProps THEN cam[c][prop] ELSE None,
                        ring |-> IF prop \in DOMAIN ENCODER_TO_FUNCTION
                                 THEN shown[ENCODER_TO_FUNCTION[prop]] ELSE <<>>]]

(***************************************************************************)
(* The observer: MessageBus and CameraManager                              *)
(***************************************************************************)

\* CameraManager.update_data: the values it leaves in _data
update_data(old, new) == [k \in DOMAIN old |-> IF k \in DOMAIN new THEN new[k] ELSE old[k]]

\* CameraManager.store_allowed: the lists it leaves in _allowed
store_allowed(old, new) ==
    [k \in DOMAIN old \cup DOMAIN new |-> IF k \in DOMAIN new THEN new[k] ELSE old[k]]

\* camera_changed of every camera connected to propagate_to_midi
emit_camera_changed_always(c) == [rp EXCEPT !.T = RenderBegin]

\* The observer takes a message of c that emits camera_changed
hears(c) == [history EXCEPT !.heard = @ \/ (c = history.left /\ c # target)]

\* camera_changed.emit() of the CameraManager of c, on the transport thread:
\* the signal is connected to propagate_to_midi only while c is selected
emit_camera_changed(c) ==
    IF target = c THEN [rp EXCEPT !.T = RenderBegin] ELSE rp

\* MessageBus.main: the subscriptions are made and dump-all is published to
\* the owners that are connected
BusStart ==
    /\ ~busUp
    /\ busUp' = TRUE
    /\ mqDump' = [c \in Cameras |-> IF session[c] = "up" THEN mqDump[c] + 1 ELSE mqDump[c]]
    /\ UNCHANGED <<data, allowed, status, target, selected_mode, mqIn, mqSet>>
    /\ UNCHANGED <<ownerVars, surfaceVars, threadVars, boundVars, pureVars, history>>

\* update_camera_screen: one message of camera/+/current
UpdateCameraScreen ==
    /\ ~rp.T.active
    /\ mqIn # <<>> /\ Head(mqIn).topic = "current"
    /\ mqIn' = Tail(mqIn)
    /\ LET c == Head(mqIn).cam
       IN  /\ data' = [data EXCEPT ![c] = update_data(@, Head(mqIn).payload)]
           /\ rp' = emit_camera_changed(c)
    /\ UNCHANGED <<busUp, allowed, status, target, selected_mode, mqSet, mqDump, hw>>
    /\ UNCHANGED <<ownerVars, surfaceVars, boundVars, pureVars>>
    /\ history' = [hears(Head(mqIn).cam) EXCEPT
                       !.clean = IF Head(mqIn).cam = target THEN TRUE ELSE @]

\* A store of the allowed values that would emit camera_changed
UpdateCameraAllowedEmitting ==
    /\ ~rp.T.active
    /\ mqIn # <<>> /\ Head(mqIn).topic = "allowed"
    /\ mqIn' = Tail(mqIn)
    /\ LET c == Head(mqIn).cam
       IN  /\ allowed' = [allowed EXCEPT ![c] = store_allowed(@, Head(mqIn).payload)]
           /\ rp' = emit_camera_changed(c)
    /\ UNCHANGED <<busUp, data, status, target, selected_mode, mqSet, mqDump, faders, shown, hw>>
    /\ UNCHANGED <<ownerVars, boundVars, pureVars, history>>

\* update_camera_allowed: one message of camera/+/allowed
UpdateCameraAllowed ==
    /\ ~rp.T.active
    /\ mqIn # <<>> /\ Head(mqIn).topic = "allowed"
    /\ mqIn' = Tail(mqIn)
    /\ LET c == Head(mqIn).cam
       IN  allowed' = [allowed EXCEPT ![c] = store_allowed(@, Head(mqIn).payload)]
    /\ UNCHANGED <<busUp, data, status, target, selected_mode, mqSet, mqDump>>
    /\ UNCHANGED <<ownerVars, surfaceVars, threadVars, boundVars, pureVars, history>>

\* update_camera_status: one message of camera/+/status; update_data(dict())
\* changes no value and emits camera_changed
UpdateCameraStatus ==
    /\ ~rp.T.active
    /\ mqIn # <<>> /\ Head(mqIn).topic = "status"
    /\ mqIn' = Tail(mqIn)
    /\ LET c == Head(mqIn).cam
       IN  /\ status' = [status EXCEPT ![c] = Head(mqIn).payload]
           /\ rp' = emit_camera_changed(c)
    /\ UNCHANGED <<busUp, data, allowed, target, selected_mode, mqSet, mqDump, hw>>
    /\ UNCHANGED <<ownerVars, surfaceVars, boundVars, pureVars>>
    /\ history' = hears(Head(mqIn).cam)

(***************************************************************************)
(* The observer: MiniMidiHandler.propagate_to_midi                         *)
(* A pass runs on the thread that emitted camera_changed or called it: the *)
(* transport thread (T) or the hardware callback thread (H).  Each         *)
(* read_property takes the lock on its own, and do_set_value stores the    *)
(* position and then sends it, so a pass is a sequence of steps.           *)
(***************************************************************************)

\* target_camera.read_property(name); FakeCamera returns None
read_property(name) == IF target = Fake THEN None ELSE data[target][name]

\* The pass of thread th moves on to the next item of ENCODER_TO_FUNCTION
next_encoder(th) ==
    IF rp[th].enc = 7 THEN [rp EXCEPT ![th] = RenderIdle]
    ELSE [rp EXCEPT ![th] = [active |-> TRUE, enc |-> rp[th].enc + 1, phase |-> "read", val |-> 0]]

\* After the position or blink-all of an encoder: colour temperature goes on
\* to look at the white-balance mode
after_position(th) ==
    IF function_for_encoder(rp[th].enc) = "colortemperature"
    THEN [rp EXCEPT ![th].phase = "wb"]
    ELSE next_encoder(th)

\* An exception leaves the pass; on the hardware thread it leaves the
\* callback as well
hw_after_exception(th) == IF th = "H" THEN HwIdle ELSE hw

\* The test of cameramodel: without a model every ring is switched off
RenderModel(th) ==
    /\ rp[th].active /\ rp[th].phase = "model"
    /\ IF read_property("cameramodel") = None
       THEN /\ shown' = [e \in Encoders |-> leds_special(e, "off")]
            /\ rp' = [rp EXCEPT ![th] = RenderIdle]
       ELSE /\ rp' = [rp EXCEPT ![th].phase = "read"]
            /\ UNCHANGED shown
    /\ UNCHANGED <<faders, hw>>
    /\ UNCHANGED <<ownerVars, mqttVars, observerVars, boundVars, pureVars>>
    /\ history' = render_event(th)

\* One item of ENCODER_TO_FUNCTION, up to the store of do_set_value
RenderRead(th) ==
    /\ rp[th].active /\ rp[th].phase = "read"
    /\ LET encoder == rp[th].enc
           key == function_for_encoder(encoder)
           m == midi_val_for(key, read_property(key))
       IN  IF key = "focus"
           THEN /\ shown' = [shown EXCEPT ![encoder] =
                                leds_special(encoder,
                                    IF read_property("movieservoaf") = "On"
                                    THEN "all-on" ELSE "blink-center")]
                /\ rp' = next_encoder(th)
                /\ UNCHANGED <<faders, hw>>
           ELSE IF m.found /\ m.error
           THEN /\ rp' = [rp EXCEPT ![th] = RenderIdle]
                /\ hw' = hw_after_exception(th)
                /\ UNCHANGED <<faders, shown>>
           ELSE IF m.found
           THEN /\ faders' = [faders EXCEPT ![encoder] = m.pos]
                /\ rp' = [rp EXCEPT ![th].phase = "send", ![th].val = m.pos]
                /\ UNCHANGED <<shown, hw>>
           ELSE /\ shown' = [shown EXCEPT ![encoder] = leds_special(encoder, "blink-all")]
                /\ rp' = after_position(th)
                /\ UNCHANGED <<faders, hw>>
    /\ UNCHANGED <<ownerVars, mqttVars, observerVars, boundVars, pureVars>>
    /\ history' = render_event(th)

\* The send of do_set_value
RenderSend(th) ==
    /\ rp[th].active /\ rp[th].phase = "send"
    /\ shown' = [shown EXCEPT ![rp[th].enc] = set_value_message(rp[th].enc, rp[th].val)]
    /\ rp' = after_position(th)
    /\ UNCHANGED <<faders, hw>>
    /\ UNCHANGED <<ownerVars, mqttVars, observerVars, boundVars, pureVars>>
    /\ history' = render_event(th)

\* The white-balance mode decides what the colour-temperature ring shows last
RenderWb(th) ==
    /\ rp[th].active /\ rp[th].phase = "wb"
    /\ LET wb == read_property("whitebalance")
       IN  shown' = [shown EXCEPT ![rp[th].enc] =
                        IF wb = "Color Temperature" THEN @
                        ELSE IF wb = "Auto" THEN leds_special(rp[th].enc, "all-on")
                        ELSE leds_special(rp[th].enc, "blink-all")]
    /\ rp' = next_encoder(th)
    /\ UNCHANGED <<faders, hw>>
    /\ UNCHANGED <<ownerVars, mqttVars, observerVars, boundVars, pureVars>>
    /\ history' = render_event(th)

(***************************************************************************)
(* The surface driver and MiniMidiHandler on the hardware callback thread  *)
(***************************************************************************)

\* The values of the relative encoder messages that are tried: one step
\* clockwise and one step counter-clockwise
MidiValues == {1, 127}

\* The encoders that are rotated: focus, shutter speed and ISO
RotatedEncoders == {0, 3, 4}

\* on_midi with one command in each direction
focus_value_flat(delta) == IF delta > 0 THEN "Far 1" ELSE "Near 1"

\* on_midi: the focus command of a step
focus_value(delta) ==
    IF delta > 0
    THEN IF delta < 2 THEN "Far 1" ELSE IF delta < 4 THEN "Far 2" ELSE "Far 3"
    ELSE IF delta > -2 THEN "Near 1" ELSE IF delta > -4 THEN "Near 2" ELSE "Near 3"

\* The callback goes on at pc
hw_at(pc) == IF pc = "idle" THEN HwIdle ELSE [hw EXCEPT !.pc = pc]

\* CameraManager._send_via_mqtt: the set-request is published; a request for
\* a camera whose owner is not connected reaches nobody
send_via_mqtt(c, key, value) ==
    IF session[c] = "up" THEN [mqSet EXCEPT ![c] = Append(@, <<key, value>>)] ELSE mqSet

\* MiniMidiHandler.on_midi_change, after which the callback goes on at pc.
\* FakeCamera has no _allowed: AttributeError ends the callback.
on_midi_change(what, value, pc) ==
    IF target = Fake
    THEN hw' = HwIdle /\ UNCHANGED <<mqSet, rp>>
    ELSE IF contains(allowed[target][what], value)
    THEN hw' = hw_at(pc) /\ mqSet' = send_via_mqtt(target, what, value) /\ UNCHANGED rp
    ELSE hw' = hw_at(pc) /\ rp' = [rp EXCEPT !.H = RenderBegin] /\ UNCHANGED mqSet

\* on_midi, control_change of an encoder: do_next_value_for up to the store
\* of do_set_value
Rotate(encoder, value) ==
    /\ busUp /\ hw.pc = "idle" /\ ~rp.H.active
    /\ budget > 0
    /\ budget' = budget - 1
    /\ LET delta == delta_of(value)
           val == next_value(encoder, delta, faders[encoder])
       IN  /\ faders' = [faders EXCEPT ![encoder] = val]
           /\ hw' = [pc |-> "send", enc |-> encoder, delta |-> delta, val |-> val]
    /\ UNCHANGED <<shown, rp>>
    /\ UNCHANGED <<ownerVars, mqttVars, observerVars, pureVars>>
    /\ history' = hardware_event

\* The send of do_set_value
HwSend ==
    /\ hw.pc = "send"
    /\ shown' = [shown EXCEPT ![hw.enc] = set_value_message(hw.enc, hw.val)]
    /\ hw' = [hw EXCEPT !.pc = "notify"]
    /\ UNCHANGED <<faders, rp>>
    /\ UNCHANGED <<ownerVars, mqttVars, observerVars, boundVars, pureVars>>
    /\ history' = hardware_event

\* on_midi after do_next_value_for, and the note_on of a shift encoder after
\* its reset: the stored position is mapped to a value and on_change is
\* called.  The focus encoder goes back to the middle (its ring message and
\* blink-center are sent one after the other) and asks for servo AF off.
HwNotify ==
    /\ hw.pc = "notify"
    /\ LET encoder == hw.enc
           key == function_for_encoder(encoder)
           r == value_for_position(encoder, faders[encoder])
       IN  IF index(range_for(encoder), faders[encoder]) = NotFound
           THEN hw' = HwIdle /\ UNCHANGED <<faders, shown, mqSet, rp>>
           ELSE IF key = "focus"
           THEN /\ faders' = [faders EXCEPT ![encoder] = VALUE_MID]
                /\ shown' = [shown EXCEPT ![encoder] = leds_special(encoder, "blink-center")]
                /\ on_midi_change("movieservoaf", "Off", "focus")
           ELSE IF r.error
           THEN hw' = HwIdle /\ UNCHANGED <<faders, shown, mqSet, rp>>
           ELSE on_midi_change(key, r.val, "idle") /\ UNCHANGED <<faders, shown>>
    /\ UNCHANGED <<mqIn, mqDump>>
    /\ UNCHANGED <<ownerVars, observerVars, boundVars, pureVars>>
    /\ history' = hardware_event

\* on_midi, focus encoder: the second on_change, with the focus command
HwFocus ==
    /\ hw.pc = "focus" /\ ~rp.H.active
    /\ on_midi_change("manualfocusdrive", focus_value(hw.delta), "idle")
    /\ UNCHANGED <<mqIn, mqDump>>
    /\ UNCHANGED <<ownerVars, observerVars, surfaceVars, boundVars, pureVars>>
    /\ history' = hardware_event

\* on_midi, note_on of the colour-temperature encoder
PressColorTemperature ==
    /\ busUp /\ hw.pc = "idle" /\ ~rp.H.active
    /\ budget > 0
    /\ budget' = budget - 1
    /\ shown' = [shown EXCEPT ![ENCODER_TO_FUNCTION.colortemperature] =
                    leds_special(ENCODER_TO_FUNCTION.colortemperature, "all-on")]
    /\ on_midi_change("whitebalance", "Auto", "idle")
    /\ UNCHANGED <<faders>>
    /\ UNCHANGED <<mqIn, mqDump>>
    /\ UNCHANGED <<ownerVars, observerVars, pureVars>>
    /\ history' = hardware_event

\* on_midi, note_on of a white-balance shift encoder: back to the middle
PressShift(encoder) ==
    /\ busUp /\ hw.pc = "idle" /\ ~rp.H.active
    /\ budget > 0
    /\ budget' = budget - 1
    /\ faders' = [faders EXCEPT ![encoder] = VALUE_MID]
    /\ hw' = [pc |-> "send", enc |-> encoder, delta |-> 0, val |-> VALUE_MID]
    /\ UNCHANGED <<shown, rp>>
    /\ UNCHANGED <<ownerVars, mqttVars, observerVars, pureVars>>
    /\ history' = hardware_event

\* on_midi, note_on of the focus encoder: servo AF on is asked for
PressFocus ==
    /\ busUp /\ hw.pc = "idle" /\ ~rp.H.active
    /\ budget > 0
    /\ budget' = budget - 1
    /\ on_midi_change("movieservoaf", "On", "focusled")
    /\ UNCHANGED <<mqIn, mqDump>>
    /\ UNCHANGED <<ownerVars, observerVars, surfaceVars, pureVars>>
    /\ history' = hardware_event

\* on_midi, note_on of the focus encoder: all-on after on_change has returned
HwFocusLed ==
    /\ hw.pc = "focusled" /\ ~rp.H.active
    /\ shown' = [shown EXCEPT ![ENCODER_TO_FUNCTION.focus] =
                    leds_special(ENCODER_TO_FUNCTION.focus, "all-on")]
    /\ hw' = HwIdle
    /\ UNCHANGED <<faders, rp>>
    /\ UNCHANGED <<ownerVars, mqttVars, observerVars, boundVars, pureVars>>
    /\ history' = hardware_event

\* MiniMidiHandler.select_camera, from a button of the surface: the signal
\* of the new target is connected and emitted, which runs a pass
SelectCamera(t) ==
    /\ busUp /\ hw.pc = "idle" /\ ~rp.H.active
    /\ budget > 0
    /\ budget' = budget - 1
    /\ t # target
    /\ target' = t
    /\ rp' = [rp EXCEPT !.H = RenderBegin]
    /\ UNCHANGED <<busUp, data, allowed, status, selected_mode, hw>>
    /\ UNCHANGED <<ownerVars, mqttVars, surfaceVars, pureVars>>
    /\ history' = [hardware_event EXCEPT !.left = target, !.heard = FALSE, !.fresh = TRUE]

(***************************************************************************)
(* The observer: the operator's actions in the GUI, on the selected camera *)
(***************************************************************************)

\* The settings adjust_relative is tried on
RelativeProps == {"iso"}

\* The requests adjust_absolute is tried on
AbsoluteRequests == {<<"whitebalance", "Daylight">>}

\* The modes set_selected_mode is tried on
SelectedModes == {"iso"}

\* CameraManager.adjust_relative: the value it requests, None when it
\* requests nothing (ValueError of index, either end of the list, 'Auto')
adjust_relative(c, what, delta) ==
    LET idx == index(allowed[c][what], data[c][what])
    IN  IF idx = NotFound THEN None
        ELSE IF idx + delta >= Len(allowed[c][what]) THEN None
        ELSE IF idx + delta < 0 THEN None
        ELSE IF at(allowed[c][what], idx + delta) = "Auto" THEN None
        ELSE at(allowed[c][what], idx + delta)

\* CameraManager.handle_key: the value it requests, None when it requests
\* nothing (a mode that is not stepped, either end of the list, TypeError of
\* idx + delta when the current value is not in the list)
handle_key(c, key) ==
    LET mode == selected_mode[c]
        delta == IF key = "right" THEN 1 ELSE -1
        idx == index(allowed[c][mode], data[c][mode])
    IN  IF mode \notin AllowedKeys THEN None
        ELSE IF mode \notin {"aperture", "shutterspeed", "iso", "exposurecompensation"} THEN None
        ELSE IF delta < 0 /\ idx = 0 THEN None
        ELSE IF delta > 0 /\ idx = Len(allowed[c][mode]) - 1 THEN None
        ELSE IF idx = NotFound THEN None
        ELSE at(allowed[c][mode], idx + delta)

\* A GUI that would store the requested value as if it were confirmed
LocalRequestStoring(request) ==
    /\ busUp /\ target # Fake
    /\ budget > 0
    /\ budget' = budget - 1
    /\ mqSet' = request
    /\ data' = [data EXCEPT ![target] =
                    IF request[target] # mqSet[target]
                    THEN [@ EXCEPT ![last(request[target])[1]] = last(request[target])[2]]
                    ELSE @]
    /\ UNCHANGED <<mqIn, mqDump, busUp, allowed, status, target, selected_mode>>
    /\ UNCHANGED <<ownerVars, surfaceVars, threadVars, pureVars, history>>

\* A local action that changes nothing but the queue of set-requests
LocalRequest(request) ==
    /\ busUp /\ target # Fake
    /\ budget > 0
    /\ budget' = budget - 1
    /\ mqSet' = request
    /\ UNCHANGED <<mqIn, mqDump>>
    /\ UNCHANGED <<ownerVars, observerVars, surfaceVars, threadVars, pureVars, history>>

\* CameraManager.adjust_relative on the selected camera
AdjustRelative(what, delta) ==
    LocalRequest(IF target # Fake /\ adjust_relative(target, what, delta) # None
                 THEN send_via_mqtt(target, what, adjust_relative(target, what, delta))
                 ELSE mqSet)

\* CameraManager.adjust_absolute on the selected camera
AdjustAbsolute(what, value) ==
    LocalRequest(IF target # Fake THEN send_via_mqtt(target, what, value) ELSE mqSet)

\* CameraManager.handle_key on the selected camera
HandleKey(key) ==
    LocalRequest(IF target # Fake /\ handle_key(target, key) # None
                 THEN send_via_mqtt(target, selected_mode[target], handle_key(target, key))
                 ELSE mqSet)

\* CameraManager.set_selected_mode on the selected camera
SetSelectedMode(mode) ==
    /\ busUp /\ target # Fake
    /\ budget > 0
    /\ budget' = budget - 1
    /\ mode # selected_mode[target]
    /\ selected_mode' = [selected_mode EXCEPT ![target] = mode]
    /\ UNCHANGED <<busUp, data, allowed, status, target>>
    /\ UNCHANGED <<ownerVars, mqttVars, surfaceVars, threadVars, pureVars, history>>

(***************************************************************************)
(* The system                                                              *)
(***************************************************************************)

Owner ==
    \E c \in Cameras :
        \/ OwnerStart(c)
        \/ DoRepublish(c)
        \/ PushToCamera(c)
        \/ CameraEvent(c)
        \/ CameraDump(c)
        \/ CameraApply(c)

Environment ==
    \E c \in Cameras :
        \/ \E prop \in ChangedOnBody : \E i \in 1..Len(choices(prop)) :
               CameraChange(c, prop, choices(prop)[i])
        \/ ExternalSet(c, "iso", "999")

Transport ==
    \/ BusStart
    \/ UpdateCameraScreen
    \/ UpdateCameraAllowed
    \/ UpdateCameraStatus

Render ==
    \E th \in {"T", "H"} :
        \/ RenderModel(th)
        \/ RenderRead(th)
        \/ RenderSend(th)
        \/ RenderWb(th)

Hardware ==
    \/ \E encoder \in RotatedEncoders : \E value \in MidiValues : Rotate(encoder, value)
    \/ HwSend
    \/ HwNotify
    \/ HwFocus
    \/ PressColorTemperature
    \/ \E encoder \in {ENCODER_TO_FUNCTION.whitebalanceadjusta,
                       ENCODER_TO_FUNCTION.whitebalanceadjustb} : PressShift(encoder)
    \/ PressFocus
    \/ HwFocusLed
    \/ \E t \in Cameras \cup {Fake} : SelectCamera(t)

Gui ==
    \/ \E what \in RelativeProps : \E delta \in {-1, 1} : AdjustRelative(what, delta)
    \/ \E request \in AbsoluteRequests : AdjustAbsolute(request[1], request[2])
    \/ \E key \in {"left", "right"} : HandleKey(key)
    \/ \E mode \in SelectedModes : SetSelectedMode(mode)

Next == Owner \/ Environment \/ Transport \/ Render \/ Hardware \/ Gui

Spec == Init /\ [][Next]_vars

\* The tasks of the owner's event loop (do_republish, push_to_camera) run
\* when a message is there, and the camera thread comes back to its queue
\* after every wait_for_event, which times out: none of them waits for ever.
OwnerFairness ==
    \A c \in Cameras :
        /\ WF_vars(DoRepublish(c))
        /\ WF_vars(PushToCamera(c))
        /\ WF_vars(CameraEvent(c))
        /\ WF_vars(CameraDump(c))
        /\ WF_vars(CameraApply(c))

SpecFair == Spec /\ OwnerFairness

(***************************************************************************)
(* The two directions of the mapping on their own: a value of a value list *)
(* is mapped to a position as propagate_to_midi does, and the position is  *)
(* mapped back as on_midi does.                                            *)
(***************************************************************************)

\* Every list-backed encoder with every 0-based index into its value list
RoundTripInputs ==
    UNION {{[enc |-> e, idx |-> i, stage |-> "value"] : i \in 0..(Len(results(e)) - 1)} :
           e \in ListEncoders}

InitRoundTrip ==
    /\ InitMachine /\ budget = 0 /\ history = NoHistory
    /\ arg \in RoundTripInputs
    /\ res = NoRes

\* propagate_to_midi: idx = results_for_function(key).index(val);
\* midi_val = range_for(encoder)[idx]
Forward ==
    /\ arg.stage = "value"
    /\ LET m == midi_val_for(function_for_encoder(arg.enc), at(results(arg.enc), arg.idx))
       IN  /\ res' = [error |-> m.error \/ ~m.found, pos |-> m.pos, val |-> None]
           /\ arg' = [arg EXCEPT !.stage = IF m.error \/ ~m.found THEN "raised" ELSE "position"]
    /\ UNCHANGED <<machineVars, history>>

\* on_midi: idx = range_for(encoder).index(faders[encoder]);
\* value = results[encoder][idx]
Reverse ==
    /\ arg.stage = "position"
    /\ LET r == value_for_position(arg.enc, res.pos)
       IN  /\ res' = [error |-> r.error, pos |-> res.pos, val |-> r.val]
           /\ arg' = [arg EXCEPT !.stage = IF r.error THEN "raised" ELSE "done"]
    /\ UNCHANGED <<machineVars, history>>

NextRoundTrip == Forward \/ Reverse

SpecRoundTrip == InitRoundTrip /\ [][NextRoundTrip]_vars

(***************************************************************************)
(* do_next_value_for on its own: one encoder is advanced again and again,  *)
(* from the position __init__ leaves.                                      *)
(***************************************************************************)

\* The values of the relative encoder messages that are tried: no step, one
\* step clockwise and one step counter-clockwise
AdvanceValues == {0, 1, 127}

InitAdvance ==
    /\ InitMachine /\ budget = 0 /\ history = NoHistory
    /\ arg \in {[enc |-> e, idx |-> 0, stage |-> "advance"] : e \in Encoders}
    /\ res = NoRes

\* XTouchMini.do_next_value_for, with the do_set_value it ends in
Advance(value) ==
    /\ arg.stage \in {"advance", "advanced"}
    /\ LET val == next_value(arg.enc, delta_of(value), faders[arg.enc])
       IN  /\ faders' = [faders EXCEPT ![arg.enc] = val]
           /\ shown' = [shown EXCEPT ![arg.enc] = set_value_message(arg.enc, val)]
    /\ arg' = [arg EXCEPT !.stage = "advanced"]
    /\ UNCHANGED <<ownerVars, mqttVars, observerVars, threadVars, boundVars, history, res>>

NextAdvance == \E value \in AdvanceValues : Advance(value)

SpecAdvance == InitAdvance /\ [][NextAdvance]_vars

(***************************************************************************)
(* Rotations of one encoder on their own: from any position the encoder    *)
(* can hold, a few relative messages of either direction and of either     *)
(* strength arrive one after the other.                                    *)
(***************************************************************************)

\* The rotations in one behaviour of SpecRotations
MaxRotations == 3

\* The values of the relative encoder messages that are tried: gentle and
\* hard, to the right and to the left
RotationValues == {1, 7, 127, 121}

\* The positions an encoder can hold: what __init__ stores and the members
\* of its sub-range
positions(encoder) == range_set(encoder) \cup {VALUE_MID}

InitRotations ==
    /\ cam = [c \in Cameras |-> InitialConfig]
    /\ old_status = [c \in Cameras |-> NoStatus]
    /\ camQueue = [c \in Cameras |-> <<>>]
    /\ camEvent = [c \in Cameras |-> FALSE]
    /\ session = [c \in Cameras |-> "down"]
    /\ mqIn = <<>>
    /\ mqSet = [c \in Cameras |-> <<>>]
    /\ mqDump = [c \in Cameras |-> 0]
    /\ busUp = FALSE
    /\ data = [c \in Cameras |-> Placeholders]
    /\ allowed = [c \in Cameras |-> [k \in AllowedKeys |-> <<>>]]
    /\ status = [c \in Cameras |-> None]
    /\ target = Fake
    /\ selected_mode = [c \in Cameras |-> None]
    /\ shown = [e \in Encoders |-> leds_special(e, "off")]
    /\ rp = [T |-> RenderIdle, H |-> RenderIdle]
    /\ hw = HwIdle
    /\ budget = MaxRotations /\ history = NoHistory /\ res = NoRes
    /\ \E e \in ListEncoders : \E p \in positions(e) :
           /\ faders = [x \in Encoders |-> IF x = e THEN p ELSE VALUE_MID]
           /\ arg = [enc |-> e, start |-> p, deltas |-> <<>>, trail |-> <<>>,
                     stage |-> "rotations"]

\* on_midi, control_change of an encoder: do_next_value_for and its
\* do_set_value; arg keeps the steps and the positions stored so far
Rotation(value) ==
    /\ arg.stage = "rotations"
    /\ budget > 0
    /\ budget' = budget - 1
    /\ LET val == next_value(arg.enc, delta_of(value), faders[arg.enc])
       IN  /\ faders' = [faders EXCEPT ![arg.enc] = val]
           /\ shown' = [shown EXCEPT ![arg.enc] = set_value_message(arg.enc, val)]
           /\ arg' = [arg EXCEPT !.deltas = Append(@, delta_of(value)),
                                  !.trail = Append(@, val)]
    /\ UNCHANGED <<ownerVars, mqttVars, observerVars, threadVars, history, res>>

NextRotations == \E value \in RotationValues : Rotation(value)

SpecRotations == InitRotations /\ [][NextRotations]_vars

(***************************************************************************)
(* The statements about the program                                        *)
(***************************************************************************)

\* The index of the value of encoder e's function in its value list, among
\* the values d of a camera
value_index(e, d) == index(results(e), d[function_for_encoder(e)])

\* The colour-temperature ring shows its position only in the white-balance
\* mode 'Color Temperature'; the other rings always show theirs
shows_position(e, d) ==
    function_for_encoder(e) # "colortemperature" \/ d.whitebalance = "Color Temperature"

\* Encoder e holds, and shows, the sub-range entry at the index of its value
at_index(e, d) ==
    /\ value_index(e, d) < Len(range_for(e))
    /\ faders[e] = at(range_for(e), value_index(e, d))
    /\ shows_position(e, d) =>
           shown[e] = set_value_message(e, at(range_for(e), value_index(e, d)))

\* The transport thread has finished the pass of a snapshot of the selected
\* camera, and the hardware callback thread has done nothing since the
\* snapshot was taken and has nothing to do
SnapshotRendered ==
    /\ history.clean /\ target # Fake
    /\ ~rp.T.active /\ ~rp.H.active /\ hw.pc = "idle"

\* C1: once a snapshot of the selected camera is processed (update_data and
\* the pass it triggers) with no hardware event in between, every list-backed
\* encoder whose value is in its value list holds and shows the sub-range
\* entry at the index of the value.
C1_PositionFollowsIndex ==
    SnapshotRendered =>
        \A e \in ListEncoders :
            value_index(e, data[target]) # NotFound => at_index(e, data[target])

\* C1: a snapshot has been processed and every list-backed encoder shows the
\* entry at the index of its value
C1_Witness ==
    /\ SnapshotRendered
    /\ \A e \in ListEncoders :
           value_index(e, data[target]) # NotFound /\ at_index(e, data[target])

(***************************************************************************)
(* Snapshots only: the settings are changed on the body of the camera, the *)
(* operator selects the camera and touches nothing else.                   *)
(***************************************************************************)

\* The inputs of the environment in one behaviour of SpecSnapshots
MaxSnapshotEvents == 4

\* The changes on the body that are tried: ISO there and back, and the last
\* shutter speed of the surface's value list
SnapshotChanges == {<<"iso", "125">>, <<"iso", "100">>, <<"shutterspeed", "1/6">>}

InitSnapshots ==
    /\ InitMachine /\ budget = MaxSnapshotEvents /\ history = NoHistory
    /\ arg = NoArg /\ res = NoRes

NextSnapshots ==
    \/ \E c \in Cameras :
           \/ OwnerStart(c)
           \/ DoRepublish(c)
           \/ CameraEvent(c)
           \/ CameraDump(c)
           \/ \E change \in SnapshotChanges : CameraChange(c, change[1], change[2])
    \/ Transport
    \/ Render
    \/ \E t \in Cameras : SelectCamera(t)

SpecSnapshots == InitSnapshots /\ [][NextSnapshots]_vars

\* The last three snapshots the owner of c has published carry A, B, A for
\* the setting key
published_aba(c, key) ==
    LET sent == history.sent[c]
        n == Len(sent)
    IN  /\ n >= 3
        /\ sent[n][key] = sent[n - 2][key]
        /\ sent[n][key] # sent[n - 1][key]

\* Every snapshot the owner of c has published is processed
all_processed(c) ==
    /\ mqIn = <<>>
    /\ ~rp.T.active
    /\ Len(history.sent[c]) > 0
    /\ data[c] = last(history.sent[c])

\* C2: when the owner of the selected camera has published A, B, A for a
\* setting and all three snapshots are processed, with no hardware event
\* since the last one was taken, the ring of the setting shows the sub-range
\* entry at the index of A, wherever A has one.
C2_LastSnapshotWins ==
    (SnapshotRendered /\ all_processed(target)) =>
        \A e \in ListEncoders :
            (/\ published_aba(target, function_for_encoder(e))
             /\ value_index(e, data[target]) # NotFound
             /\ value_index(e, data[target]) < Len(range_for(e)))
            => at_index(e, data[target])

\* C2: A, B, A were published for ISO, all three are processed and the ISO
\* ring shows the entry of A
C2_Witness ==
    /\ SnapshotRendered /\ all_processed(target)
    /\ published_aba(target, "iso")
    /\ at_index(ENCODER_TO_FUNCTION.iso, data[target])

\* Nothing is in flight and no thread has anything to do
Quiescent ==
    /\ mqIn = <<>>
    /\ \A c \in Cameras :
           /\ mqSet[c] = <<>> /\ mqDump[c] = 0
           /\ camQueue[c] = <<>> /\ ~camEvent[c]
    /\ ~rp.T.active /\ ~rp.H.active /\ hw.pc = "idle"

\* No value of the values d stops a pass: every value that is in its value
\* list has an entry in the sub-range
renderable(d) ==
    \A e \in ListEncoders :
        value_index(e, d) # NotFound => value_index(e, d) < Len(range_for(e))

\* Ring e shows what a pass shows for the values d
shows_value(e, d) ==
    IF ~shows_position(e, d)
    THEN shown[e] = leds_special(e, IF d.whitebalance = "Auto" THEN "all-on" ELSE "blink-all")
    ELSE IF value_index(e, d) = NotFound
    THEN shown[e] = leds_special(e, "blink-all")
    ELSE shown[e] = set_value_message(e, at(range_for(e), value_index(e, d)))

\* C3: whatever the interleaving of the transport thread with the hardware
\* callback thread, once nothing is in flight and both threads are idle every
\* ring of the selected camera shows what the last processed snapshot maps
\* to: never an older value and never a mix.
C3_QuiescentRingsAreCurrent ==
    (/\ Quiescent /\ target # Fake
     /\ Len(history.sent[target]) > 0
     /\ data[target] = last(history.sent[target])
     /\ renderable(data[target]))
    => \A e \in ListEncoders : shows_value(e, data[target])

\* C3: the hardware callback thread has acted after the last snapshot was
\* taken, nothing is in flight, and every ring shows what the snapshot maps to
C3_Witness ==
    /\ Quiescent /\ target # Fake
    /\ Len(history.sent[target]) > 0
    /\ data[target] = last(history.sent[target])
    /\ renderable(data[target])
    /\ ~history.clean
    /\ \A e \in ListEncoders : shows_value(e, data[target])

\* The position a pass would give ring e for the values d is known
confirmed_position(e, d) ==
    LET m == midi_val_for(function_for_encoder(e), d[function_for_encoder(e)])
    IN  IF m.found /\ ~m.error THEN m.pos ELSE NotFound

\* The hardware callback sends the ring command of a rotation in this step
RotationSends == hw.pc = "send" /\ hw'.pc = "notify" /\ hw.delta # 0

\* C4 as stated: a rotation does not advance the ring of its encoder; the
\* ring command it sends, if any, is the one of the position of the value
\* the last snapshot confirmed.
C4_RingNotAdvanced ==
    [][(/\ RotationSends /\ target # Fake
        /\ hw.enc \in ListEncoders
        /\ confirmed_position(hw.enc, data[target]) # NotFound)
       => shown'[hw.enc] = set_value_message(hw.enc, confirmed_position(hw.enc, data[target]))]_vars

\* C4: a rotation advances the ring of its encoder at once, before any
\* snapshot: the position stored is the nearest entry of the encoder's
\* sub-range in the direction of the rotation, the end entry when there is
\* none, and the ring command sent is the one of that position.
C4_RingAdvancedAtOnce ==
    [][/\ (hw.pc = "idle" /\ hw'.pc = "send" /\ hw'.delta # 0) =>
             LET e == hw'.enc
                 old == faders[e]
                 new == hw'.val
             IN  /\ faders'[e] = new
                 /\ new \in range_set(e)
                 /\ hw'.delta > 0 =>
                        /\ new > old \/ new = last(range_for(e))
                        /\ \A x \in range_set(e) : ~(old < x /\ x < new)
                 /\ hw'.delta < 0 =>
                        /\ new < old \/ new = at(range_for(e), 0)
                        /\ \A x \in range_set(e) : ~(new < x /\ x < old)
       /\ RotationSends => shown'[hw.enc] = set_value_message(hw.enc, hw.val)]_vars

\* C4: the ring of a rotated encoder shows a position that no snapshot has
\* confirmed, while the callback has not yet asked for the value
C4_Witness ==
    /\ hw.pc = "notify" /\ hw.delta # 0 /\ target # Fake
    /\ hw.enc \in ListEncoders
    /\ confirmed_position(hw.enc, data[target]) # NotFound
    /\ hw.val # confirmed_position(hw.enc, data[target])
    /\ shown[hw.enc] = set_value_message(hw.enc, hw.val)
    /\ mqSet[target] = <<>>

\* The step takes one message of the owner from the observer's queue and
\* stores it with update_data or store_allowed
StoresOwnerMessage ==
    /\ mqIn # <<>> /\ mqIn' = Tail(mqIn)
    /\ LET c == Head(mqIn).cam
       IN  \/ /\ Head(mqIn).topic = "current"
              /\ data' = [data EXCEPT ![c] = update_data(@, Head(mqIn).payload)]
              /\ allowed' = allowed
           \/ /\ Head(mqIn).topic = "allowed"
              /\ allowed' = [allowed EXCEPT ![c] = store_allowed(@, Head(mqIn).payload)]
              /\ data' = data

\* The step is one of the hardware callback thread (a rotation, a button, a
\* selection and what they call) or one of the operator's actions in the GUI
LocalAction ==
    \/ hw' # hw
    \/ rp'.H # rp.H
    \/ budget' < budget /\ cam' = cam

\* The step publishes at most one set-request, and nothing else
AtMostOneRequest ==
    /\ mqIn' = mqIn /\ mqDump' = mqDump
    /\ \/ mqSet' = mqSet
       \/ \E c \in Cameras :
              /\ Len(mqSet'[c]) = Len(mqSet[c]) + 1
              /\ SubSeq(mqSet'[c], 1, Len(mqSet[c])) = mqSet[c]
              /\ \A o \in Cameras \ {c} : mqSet'[o] = mqSet[o]

\* C5: no local action of the operator (rotation, encoder button,
\* adjust_absolute, adjust_relative, handle_key) changes _data or _allowed of
\* any camera, which change only when update_data or store_allowed stores a
\* message of the owner; a local action publishes at most one set-request.
C5_LocalActionsOnlyRequest ==
    [][/\ (data' # data \/ allowed' # allowed) => StoresOwnerMessage
       /\ LocalAction =>
              /\ data' = data /\ allowed' = allowed
              /\ cam' = cam /\ old_status' = old_status
              /\ AtMostOneRequest]_vars

\* C5: a local action has asked for an allowed value that differs from the
\* replicated one, which is as it was
C5_Witness ==
    /\ target # Fake /\ mqSet[target] # <<>>
    /\ LET key == last(mqSet[target])[1]
           value == last(mqSet[target])[2]
       IN  /\ key \in DOMAIN allowed[target]
           /\ contains(allowed[target][key], value)
           /\ data[target][key] # value
           /\ data[target][key] = cam[target][key]

\* The camera thread takes a set-request from its queue whose value the
\* setting does not offer
RejectsRequest(c) ==
    /\ camQueue[c] # <<>>
    /\ camQueue'[c] = Tail(camQueue[c])
    /\ Head(camQueue[c])[1] \in WritableProps
    /\ ~contains(choices(Head(camQueue[c])[1]), Head(camQueue[c])[2])

\* A request of another client was made while the ring of its setting showed
\* the position of the camera's value, the owner has rejected it and has
\* published a snapshot after that, the value in it is the one the camera
\* had, and the snapshot is processed with no hardware event since the request
RejectedAndResynced ==
    /\ history.request.state = "published"
    /\ target = history.request.c
    /\ SnapshotRendered /\ all_processed(target)
    /\ data[target][history.request.prop] = history.request.value
    /\ confirmed_position(ENCODER_TO_FUNCTION[history.request.prop], data[target]) # NotFound
    /\ history.request.ring =
           set_value_message(ENCODER_TO_FUNCTION[history.request.prop],
               confirmed_position(ENCODER_TO_FUNCTION[history.request.prop], data[target]))

ServesDump(c) ==
    /\ camQueue[c] # <<>>
    /\ Head(camQueue[c])[1] = "DUMP"
    /\ camQueue'[c] = Tail(camQueue[c])

\* The step publishes the whole status of c and then its allowed values
PublishesFullSnapshots(c) ==
    /\ Len(mqIn') = Len(mqIn) + 2
    /\ SubSeq(mqIn', 1, Len(mqIn)) = mqIn
    /\ LET current == mqIn'[Len(mqIn) + 1]
           lists == mqIn'[Len(mqIn) + 2]
       IN  /\ current.topic = "current" /\ current.cam = c
           /\ DOMAIN current.payload = elements(PROPS_RO) \cup elements(PROPS_RW)
           /\ \A p \in DOMAIN current.payload : current.payload[p] = cam[c][p]
           /\ lists.topic = "allowed" /\ lists.cam = c
           /\ DOMAIN lists.payload = elements(PROPS_RW)
           /\ \A p \in DOMAIN lists.payload : lists.payload[p] = choices(p)

\* C7: every owner that receives dump-all goes on to carry out the DUMP it
\* queues for it, and every DUMP publishes the whole status (every read-only
\* and read-write setting, changed or not since the last publication) and
\* then the allowed values of every setting that has choices.
C7_DumpAllIsAnswered ==
    /\ [][\A c \in Cameras : (ServesDump(c) /\ busUp) => PublishesFullSnapshots(c)]_vars
    /\ \A c \in Cameras :
           (history.asked[c] >= 1) ~> (history.served[c] >= history.asked[c] + 1)

\* C7: an owner has answered dump-all with a status equal to the one it had
\* published last
C7_Witness ==
    \E c \in Cameras :
        /\ history.asked[c] >= 1
        /\ history.served[c] >= history.asked[c] + 1
        /\ Len(history.sent[c]) >= 2
        /\ history.sent[c][Len(history.sent[c])] = history.sent[c][Len(history.sent[c]) - 1]
        /\ Len(mqIn) >= 2
        /\ mqIn[Len(mqIn)].topic = "allowed"
        /\ mqIn[Len(mqIn) - 1].topic = "current"
        /\ mqIn[Len(mqIn) - 1].payload = history.sent[c][Len(history.sent[c])]

\* The owner of the selected camera has answered the observer's dump-all, and
\* the status and the allowed values it has published are processed and
\* rendered, with no hardware event since the status was taken
Resynced ==
    /\ SnapshotRendered /\ all_processed(target)
    /\ history.asked[target] >= 1
    /\ history.served[target] >= history.asked[target] + 1
    /\ data[target] = status_of(cam[target])
    /\ \A p \in elements(PROPS_RW) : allowed[target][p] = choices(p)

\* C8: an observer that starts from the placeholders and publishes dump-all
\* has, once the owner's answer is processed, every list-backed ring of the
\* selected camera at the sub-range entry at the index of the owner's value,
\* wherever the value is in the value list, without anything done by the
\* operator.
C8_ResyncRendersEveryEncoder ==
    Resynced =>
        \A e \in ListEncoders :
            value_index(e, data[target]) # NotFound => at_index(e, data[target])

\* C8: the answer to dump-all is processed, and every list-backed ring whose
\* value is in its value list is at the entry of the owner's value
C8_Witness ==
    /\ Resynced
    /\ \E e \in ListEncoders : value_index(e, data[target]) # NotFound
    /\ \A e \in ListEncoders :
           value_index(e, data[target]) # NotFound => at_index(e, data[target])

\* C9: for every list-backed encoder and every value of its value list, the
\* sub-range entry at the index of the value exists, and the value-list entry
\* at the index of that entry in the sub-range is the value again.
C9_RoundTrip ==
    arg.stage \in {"raised", "done"} =>
        /\ arg.stage = "done"
        /\ ~res.error
        /\ res.val = at(results(arg.enc), arg.idx)

\* C9: a colour temperature, whose sub-range has its own 76 entries, has gone
\* to its position and come back as itself
C9_Witness ==
    /\ arg.stage = "done"
    /\ arg.enc = ENCODER_TO_FUNCTION.colortemperature
    /\ arg.idx = Len(COLORTEMPERATURES) - 1
    /\ res.pos = last(range_for(arg.enc))
    /\ res.val = last(COLORTEMPERATURES)

\* C10: whatever the encoder and whatever the sequence of steps, clockwise,
\* counter-clockwise or none, the position do_next_value_for stores is a
\* member of range_for(encoder) after every call.
C10_AdvanceStaysInRange ==
    arg.stage = "advanced" => faders[arg.enc] \in range_set(arg.enc)

\* C10: the shutter-speed encoder has been advanced to the last entry of its
\* clipped sub-range, which is where the next clockwise step leaves it
C10_Witness ==
    /\ arg.stage = "advanced"
    /\ arg.enc = ENCODER_TO_FUNCTION.shutterspeed
    /\ faders[arg.enc] = last(range_for(arg.enc))
    /\ next_value(arg.enc, 1, faders[arg.enc]) = faders[arg.enc]
    /\ shown[arg.enc] = set_value_message(arg.enc, last(range_for(arg.enc)))

\* The two positions outside the ring, which do_set_value sends as blinks
Sentinels == {-1, 128}

position_before(i) == IF i = 1 THEN arg.start ELSE arg.trail[i - 1]

\* The members of the sub-range of encoder e above and below position p
members_above(e, p) == {x \in range_set(e) : x > p}

members_below(e, p) == {x \in range_set(e) : x < p}

\* The least and the greatest member of a non-empty set of positions
least(S) == CHOOSE x \in S : \A y \in S : x <= y

greatest(S) == CHOOSE x \in S : \A y \in S : x >= y

\* C12: whatever the list-backed encoder, the position p it holds and the
\* delta d, do_next_value_for stores the smallest member of the sub-range
\* above p when d > 0 and the largest member below p when d < 0, and the
\* greatest (least) member of the sub-range when there is none; the strength
\* of the turn makes no difference.
C12_AdvanceIsOneStep ==
    arg.stage = "rotations" =>
        \A i \in 1..Len(arg.trail) :
            LET e == arg.enc
                p == position_before(i)
                d == arg.deltas[i]
                new == arg.trail[i]
            IN  /\ i = Len(arg.trail) => faders[e] = new
                /\ d > 0 => new = IF members_above(e, p) # {}
                                  THEN least(members_above(e, p))
                                  ELSE greatest(range_set(e))
                /\ d < 0 => new = IF members_below(e, p) # {}
                                  THEN greatest(members_below(e, p))
                                  ELSE least(range_set(e))

\* C12: two hard turns to the left on the exposure-compensation encoder
\* from 22: the first has stored 16, the very next member below, and the
\* second has left the encoder at 16, the least member of the sub-range
C12_Witness ==
    /\ arg.stage = "rotations"
    /\ arg.enc = ENCODER_TO_FUNCTION.exposurecompensation
    /\ arg.start = 22 /\ arg.deltas = <<-7, -7>> /\ arg.trail = <<16, 16>>
    /\ faders[arg.enc] = 16

\* Every rotation of the behaviour so far was to the right (sign 1) or every
\* one was to the left (sign -1)
same_direction(sign) ==
    /\ Len(arg.deltas) >= 1
    /\ \A i \in 1..Len(arg.deltas) : arg.deltas[i] * sign > 0

\* C13: from a position that is a member of the sub-range, k rotations in the
\* same direction store the next k members of the sub-range one after the
\* other, none skipped and none twice, and stay at the end of the sub-range
\* once it is reached.
C13_VisitsMembersInOrder ==
    (arg.stage = "rotations" /\ arg.start \in range_set(arg.enc)) =>
        LET range == range_for(arg.enc)
            from == index(range, arg.start)
        IN  /\ same_direction(1) =>
                   \A k \in 1..Len(arg.trail) :
                       arg.trail[k] = at(range, IF from + k < Len(range)
                                                THEN from + k ELSE Len(range) - 1)
            /\ same_direction(-1) =>
                   \A k \in 1..Len(arg.trail) :
                       arg.trail[k] = at(range, IF from - k >= 0 THEN from - k ELSE 0)

\* C13: two deltas of -1 on the exposure-compensation encoder from 64 have
\* given 59 and then 54
C13_Witness ==
    /\ arg.stage = "rotations"
    /\ arg.enc = ENCODER_TO_FUNCTION.exposurecompensation
    /\ arg.start = 64 /\ arg.deltas = <<-1, -1>> /\ arg.trail = <<59, 54>>
    /\ faders[arg.enc] = 54
    /\ shown[arg.enc] = <<10, 2, 54>>


(***************************************************************************)
(* C14                                                                     *)
(***************************************************************************)

\* The round trip is at the aperture '4'
aperture_four ==
    /\ arg.stage \in {"position", "done"}
    /\ arg.enc = ENCODER_TO_FUNCTION["aperture"]
    /\ at(results(arg.enc), arg.idx) = "4"

\* C14: the aperture '4' is the entry of index 11 of a value list of 27
\* entries that is spread over the whole ring; it is rendered at the ring
\* position 54, which the regular LED mapping shows as LED6, the indication of
\* the positions 54..58.
C14_ApertureFourIsLed6 ==
    aperture_four =>
        /\ arg.idx = 11
        /\ Len(results(arg.enc)) = 27
        /\ range_for(arg.enc) = LED_STEPS
        /\ ~res.error
        /\ res.pos = 54
        /\ led_for(res.pos) = "LED6"
        /\ {val \in 0..127 : led_for(val) = "LED6"} = 54..58

C14_Witness ==
    /\ aperture_four
    /\ arg.stage = "position"
    /\ res.pos = 54
    /\ segment_of(res.pos) = 11


(***************************************************************************)
(* do_set_value on its own: one encoder is given one value, a ring         *)
(* position or one of the two values beyond the ends of the ring.          *)
(***************************************************************************)

\* The values do_set_value is given
RingValues == -1..128

InitRing ==
    /\ InitMachine /\ budget = 0 /\ history = NoHistory
    /\ arg \in {[enc |-> e, val |-> val, stage |-> "ring"] :
                    e \in Encoders, val \in RingValues}
    /\ res = NoRes

\* XTouchMini.do_set_value; res is what the ring then indicates
SetValue ==
    /\ arg.stage = "ring"
    /\ faders' = [faders EXCEPT ![arg.enc] = arg.val]
    /\ shown' = [shown EXCEPT ![arg.enc] = set_value_message(arg.enc, arg.val)]
    /\ res' = [segment |-> segment_of(arg.val), led |-> led_for(arg.val)]
    /\ arg' = [arg EXCEPT !.stage = "shown"]
    /\ UNCHANGED <<ownerVars, mqttVars, observerVars, threadVars, boundVars, history>>

NextRing == SetValue

SpecRing == InitRing /\ [][NextRing]_vars

(***************************************************************************)
(* C15                                                                     *)
(***************************************************************************)

\* LED_STEPS[i], counted from 0 as the code counts
breakpoint(i) == at(LED_STEPS, i)

\* The segment of the table a value falls in: the index of the last
\* breakpoint that is not above it
breakpoint_segment(val) ==
    greatest({i \in 0..(Len(LED_STEPS) - 1) : breakpoint(i) <= val})

\* C15: LED_STEPS has 27 strictly increasing entries, and a value given to
\* do_set_value is indicated as the segment of the table it falls in: the
\* first and the last value of segment i, LED_STEPS[i] and LED_STEPS[i+1]-1,
\* are indicated alike, and LED_STEPS[i+1] is indicated as another segment,
\* further to the right, for i in 0..25.
C15_BreakpointsSeparateSegments ==
    /\ Len(LED_STEPS) = 27
    /\ \A i \in 0..25 : breakpoint(i) < breakpoint(i + 1)
    /\ arg.stage = "shown" =>
        /\ res.segment = breakpoint_segment(arg.val)
        /\ \A i \in 0..25 :
               arg.val = breakpoint(i) =>
                   /\ segment_of(breakpoint(i + 1) - 1) = res.segment
                   /\ segment_of(breakpoint(i + 1)) > res.segment

C15_Witness ==
    /\ arg.stage = "shown"
    /\ arg.val = 63
    /\ res.segment = 12
    /\ res.led = "LED6+7"
    /\ shown[arg.enc] = <<10, arg.enc + 1, 63>>


(***************************************************************************)
(* C16                                                                     *)
(***************************************************************************)

\* The message is a control-change of the ring position of the encoder
ring_position_message(encoder, message) ==
    message[1] = 10 /\ message[2] = encoder + 1

\* C16: do_set_value sends -1 as 'blink-left' and 128 as 'blink-right' through
\* leds_special, and every position 0..127 as the ring-position control-change
\* of that encoder with the position as its value; -1 and 128 are never the
\* value of a ring-position control-change.
C16_SentinelsUseSpecialControl ==
    arg.stage = "shown" =>
        /\ arg.val = -1 => shown[arg.enc] = leds_special(arg.enc, "blink-left")
        /\ arg.val = 128 => shown[arg.enc] = leds_special(arg.enc, "blink-right")
        /\ arg.val \in 0..127 =>
               /\ ring_position_message(arg.enc, shown[arg.enc])
               /\ shown[arg.enc][3] = arg.val
        /\ ring_position_message(arg.enc, shown[arg.enc]) =>
               shown[arg.enc][3] \notin {-1, 128}
        /\ \A e \in Encoders \ {arg.enc} : shown[e] = leds_special(e, "off")

C16_Witness ==
    /\ arg.stage = "shown"
    /\ arg.val = 128
    /\ faders[arg.enc] = 128
    /\ shown[arg.enc] = <<0, arg.enc + 9, 26>>


(***************************************************************************)
(* C17                                                                     *)
(***************************************************************************)

\* The pass of thread th is at an encoder bound to a list of values, and the
\* value of the selected camera is not in the list
ReadsUnknownValue(th) ==
    /\ rp[th].active /\ rp[th].phase = "read"
    /\ rp[th].enc \in ListEncoders
    /\ index(results(rp[th].enc), read_property(function_for_encoder(rp[th].enc))) = NotFound

\* The pass of thread th takes its step
PassMoves(th) == rp'[th] # rp[th]

\* C17: when the value of the selected camera is not in the value list of an
\* encoder, the step of the render pass for that encoder sends blink-all to
\* its ring, stores no position, and goes on without sending a position.
C17_UnknownValueBlinksAll ==
    [][\A th \in {"T", "H"} :
          ReadsUnknownValue(th) /\ PassMoves(th) =>
              /\ shown'[rp[th].enc] = leds_special(rp[th].enc, "blink-all")
              /\ faders' = faders
              /\ rp'[th].phase # "send"]_vars

\* The shutter speed set on the body is not in the value list: the ring
\* blinks and still holds the position of the value rendered before
C17_Witness ==
    /\ target \in Cameras
    /\ ~rp.T.active /\ ~rp.H.active
    /\ data[target]["shutterspeed"] = "1/1250"
    /\ index(results(3), "1/1250") = NotFound
    /\ shown[3] = leds_special(3, "blink-all")
    /\ faders[3] = at(range_for(3), index(results(3), "1/50"))


(***************************************************************************)
(* xtouch.py: the decoder of the X-Touch buttons on its own.  arg holds     *)
(* previous_value, as a sequence that is empty for None; res is what the    *)
(* last message came to.                                                    *)
(***************************************************************************)

\* The messages given to on_midi in one behaviour
MaxMessages == 4

\* XTouch.KEYS
KEYS ==
    (12 :> (5 :> "hui"))
    @@ (13 :> (0 :> "down" @@ 1 :> "left" @@ 2 :> "zoom" @@ 3 :> "right"
               @@ 4 :> "up" @@ 5 :> "scrub" @@ 6 :> "solo"))
    @@ (14 :> (1 :> "previous" @@ 2 :> "next" @@ 3 :> "stop" @@ 4 :> "play"
               @@ 5 :> "rec"))
    @@ (15 :> (2 :> "click" @@ 3 :> "cycle" @@ 4 :> "marker"))
    @@ (16 :> (0 :> "nudge" @@ 2 :> "drop" @@ 3 :> "replace"))

\* dict.get(key, None), with the empty sequence for None
get(candidates, key) ==
    IF key \in DOMAIN candidates THEN <<candidates[key]>> ELSE <<>>

control_change(channel, control, value) ==
    [type |-> "control_change", channel |-> channel, control |-> control, value |-> value]

\* The messages that are tried: zone messages (control 0x0f) of two known
\* zones and of an unknown one, key messages (control 0x2f) that are known in
\* both zones, in one, or in none, released and pressed, wheel messages
\* (control 0x0d), a control and a channel the protocol does not have, and a
\* message that is not a control change
DecoderMessages ==
    {control_change(0, 15, value) : value \in {13, 14, 17}}
    \cup {control_change(0, 47, value) : value \in {0, 5, 68, 7}}
    \cup {control_change(0, 13, value) : value \in {1, 65}}
    \cup {control_change(0, 9, 1), control_change(1, 15, 13)}
    \cup {[type |-> "note_on", channel |-> 0, control |-> 0, value |-> 0]}

\* What parse_midi comes to: the statement that raises ("none" when it
\* returns), previous_value afterwards, and what it returns
outcome(raised, previous_value, what, wheel, pressed) ==
    [raised |-> raised, previous_value |-> previous_value, what |-> what,
     wheel |-> wheel, pressed |-> pressed]

\* XTouch.parse_midi
parse_midi(previous_value, message) ==
    IF message.type # "control_change"
    THEN outcome("unhandled", previous_value, "none", 0, FALSE)
    ELSE IF message.channel # 0
    THEN outcome("unrecognized", previous_value, "none", 0, FALSE)
    ELSE IF message.control = 15
    THEN IF previous_value # <<>>
         THEN outcome("zone-while-awaiting-key", previous_value, "none", 0, FALSE)
         ELSE IF message.value \notin DOMAIN KEYS
         THEN outcome("unknown-zone", <<message.value>>, "none", 0, FALSE)
         ELSE outcome("none", <<message.value>>, "none", 0, FALSE)
    ELSE IF message.control = 13
    THEN outcome("none", previous_value, "wheel",
                 IF message.value > 64 THEN message.value - 64 ELSE 0 - message.value,
                 FALSE)
    ELSE IF message.control = 47
    THEN IF previous_value = <<>>
         THEN outcome("key-without-zone", previous_value, "none", 0, FALSE)
         ELSE IF previous_value[1] \notin DOMAIN KEYS
         THEN outcome("KeyError", previous_value, "none", 0, FALSE)
         ELSE LET candidates == KEYS[previous_value[1]]
                  released == get(candidates, message.value)
                  pressed == get(candidates, message.value - 64)
              IN  IF released # <<>>
                  THEN outcome("none", <<>>, released[1], 0, FALSE)
                  ELSE IF pressed # <<>>
                  THEN outcome("none", <<>>, pressed[1], 0, TRUE)
                  ELSE outcome("unknown-key", previous_value, "none", 0, FALSE)
    ELSE outcome("unhandled", previous_value, "none", 0, FALSE)

InitDecoder ==
    /\ InitMachine /\ budget = MaxMessages /\ history = NoHistory
    /\ arg = [stage |-> "decoder", previous_value |-> <<>>, message |-> <<>>]
    /\ res = outcome("none", <<>>, "none", 0, FALSE)

\* XTouch.on_midi: parse_midi, and on_wheel or on_button with what it returns;
\* arg keeps the message, res the outcome
DecoderOnMidi(message) ==
    /\ arg.stage = "decoder"
    /\ budget > 0
    /\ budget' = budget - 1
    /\ res' = parse_midi(arg.previous_value, message)
    /\ arg' = [arg EXCEPT !.previous_value = res'.previous_value, !.message = <<message>>]
    /\ UNCHANGED <<ownerVars, mqttVars, observerVars, surfaceVars, threadVars, history>>

NextDecoder == \E message \in DecoderMessages : DecoderOnMidi(message)

SpecDecoder == InitDecoder /\ [][NextDecoder]_vars

(***************************************************************************)
(* C18                                                                     *)
(***************************************************************************)

\* The protocol violations of the pairing of zone and key messages
PairingViolations ==
    {"zone-while-awaiting-key", "unknown-zone", "unknown-key", "key-without-zone"}

awaiting_zone == arg.previous_value = <<>>

\* The last message was the key message of a pair and named a button
resolved_pair == res.raised = "none" /\ res.what \notin {"none", "wheel"}

\* C18: the decoder of the X-Touch buttons awaits a zone (previous_value is
\* None) after every key message that resolves a button and after every
\* message that violates the pairing: a zone message when a key is awaited,
\* an unknown zone code, an unknown key code, a key message without a zone.
C18_DecoderAwaitsZoneAfterFault ==
    (resolved_pair \/ res.raised \in PairingViolations) => awaiting_zone

\* A zone message and its key message name a button, and the decoder awaits
\* a zone again
C18_Witness ==
    /\ resolved_pair
    /\ res.what = "up" /\ res.pressed
    /\ arg.message = <<control_change(0, 47, 68)>>
    /\ awaiting_zone


(***************************************************************************)
(* xtouchmini.py: on_midi on its own.  The surface is given control-change *)
(* messages of encoders and of other controls and channels; arg keeps the  *)
(* message, res what on_midi sent and the calls of on_change it made.      *)
(***************************************************************************)

\* The messages given to on_midi in one behaviour
MaxMidi == 2

\* The messages that are tried: the eight encoders, the main fader and two
\* controls above it, on the channel of the encoders and on another one, one
\* step to the right and one to the left
MidiMessages ==
    {control_change(channel, control, value) :
        channel \in {0, 10}, control \in (1..10) \cup {12}, value \in MidiValues}

\* on_midi handles only the main fader
ignored_fader_only(message) == message.control = 9

\* on_midi: the two early returns for what is not an encoder
ignored(message) ==
    \/ message.control = 9
    \/ message.channel # 10 \/ message.control > 8

InitSurface ==
    /\ InitMachine /\ budget = MaxMidi /\ history = NoHistory
    /\ arg = [stage |-> "surface", message |-> <<>>]
    /\ res = [sent |-> <<>>, changes |-> <<>>, raised |-> FALSE]

\* XTouchMini.on_midi, control_change
OnMidi(message) ==
    /\ arg.stage = "surface"
    /\ budget > 0
    /\ budget' = budget - 1
    /\ arg' = [arg EXCEPT !.message = <<message>>]
    /\ IF ignored(message)
       THEN /\ res' = [sent |-> <<>>, changes |-> <<>>, raised |-> FALSE]
            /\ UNCHANGED surfaceVars
       ELSE LET delta == delta_of(message.value)
                encoder == message.control - 1
                key == function_for_encoder(encoder)
                val == next_value(encoder, delta, faders[encoder])
                r == value_for_position(encoder, val)
            IN  IF key = "focus"
                THEN /\ faders' = [faders EXCEPT ![encoder] = VALUE_MID]
                     /\ shown' = [shown EXCEPT ![encoder] = leds_special(encoder, "blink-center")]
                     /\ res' = [sent |-> <<set_value_message(encoder, val),
                                           <<message.channel, message.control, VALUE_MID>>,
                                           leds_special(encoder, "blink-center")>>,
                                changes |-> <<<<"movieservoaf", "Off">>,
                                              <<"manualfocusdrive", focus_value(delta)>>>>,
                                raised |-> FALSE]
                ELSE /\ faders' = [faders EXCEPT ![encoder] = val]
                     /\ shown' = [shown EXCEPT ![encoder] = set_value_message(encoder, val)]
                     /\ res' = [sent |-> <<set_value_message(encoder, val)>>,
                                changes |-> IF r.error THEN <<>> ELSE <<<<key, r.val>>>>,
                                raised |-> r.error]
    /\ UNCHANGED <<ownerVars, mqttVars, observerVars, threadVars, history>>

NextSurface == \E message \in MidiMessages : OnMidi(message)

SpecSurface == InitSurface /\ [][NextSurface]_vars

(***************************************************************************)
(* C19                                                                     *)
(***************************************************************************)

\* The message is not one of the encoder protocol: the main fader, another
\* channel than the one of the encoders, a control above 8
outside_protocol(message) ==
    message.control = 9 \/ message.channel # 10 \/ message.control > 8

\* on_midi is given the message in this step
Receives(message) == budget' = budget - 1 /\ arg'.message = <<message>>

\* C19: a control-change message of the main fader (control 9), of a channel
\* other than the one of the encoders or of a control above 8 changes no
\* stored position, sends nothing to the rings and calls on_change for
\* nothing.
C19_UnrelatedControlsAreIgnored ==
    [][\A message \in MidiMessages :
          Receives(message) /\ outside_protocol(message) =>
              /\ faders' = faders
              /\ shown' = shown
              /\ res'.sent = <<>>
              /\ res'.changes = <<>>
              /\ ~res'.raised]_vars

\* The main fader is moved after the shutter speed encoder was turned: the
\* position of the encoder stays and nothing is sent
C19_Witness ==
    /\ arg.stage = "surface"
    /\ arg.message = <<control_change(10, 9, 1)>>
    /\ faders[3] = 65
    /\ shown[3] = <<10, 4, 65>>
    /\ res.sent = <<>> /\ res.changes = <<>>


(***************************************************************************)
(* C20                                                                     *)
(***************************************************************************)

\* The step takes a message of camera/+/current or camera/+/status of a
\* camera that is not selected from the observer's queue
TakesMessageOfUnselected ==
    /\ mqIn # <<>> /\ mqIn' = Tail(mqIn)
    /\ Head(mqIn).topic \in {"current", "status"}
    /\ Head(mqIn).cam # target

SelectionRendered ==
    /\ history.fresh
    /\ ~rp.T.active /\ ~rp.H.active /\ hw.pc = "idle"

\* Every ring is switched off
all_off == \A e \in Encoders : shown[e] = leds_special(e, "off")

\* The focus ring shows what a pass shows for the values d
shows_focus(d) ==
    shown[ENCODER_TO_FUNCTION["focus"]] =
        leds_special(ENCODER_TO_FUNCTION["focus"],
                     IF d.movieservoaf = "On" THEN "all-on" ELSE "blink-center")

\* Once no camera is selected every ring is off
DeselectedIsOff == (SelectionRendered /\ target = Fake) => all_off

\* Once a camera whose model is known is selected, every ring shows what the
\* values of that camera map to
SelectedIsRendered ==
    (/\ SelectionRendered /\ target \in Cameras /\ mqIn = <<>>
     /\ data[target].cameramodel # None)
    => /\ shows_focus(data[target])
       /\ renderable(data[target])
       /\ \A e \in ListEncoders : shows_value(e, data[target])

\* C21: after the operator has selected no camera every ring is switched
\* 'off', and after the operator has selected a camera every ring shows what
\* the current values of that camera map to.
C21_SelectionRendersEveryRing == DeselectedIsOff /\ SelectedIsRendered

\* A camera is left for no camera, nothing runs at the time, and every ring
\* is switched off
C21_Witness ==
    /\ SelectionRendered /\ target = Fake
    /\ history.left \in Cameras
    /\ faders[2] = 54
    /\ all_off
    /\ ~history.heard


(***************************************************************************)
(* The sessions of the device owner.  main connects, publishes 'online',   *)
(* queues a DUMP and starts the camera thread, again after every MQTT      *)
(* error; the broker publishes the last will 'offline' when the connection *)
(* is lost.  session is "down" between two sessions, "up" in a session,    *)
(* "dying" once the camera thread has failed in a session, and "exited"    *)
(* once main has raised.  arg holds, for each owner,                       *)
(*   thread: the camera thread: "new", "running" or "dead"                 *)
(*   pc:     "start" when a session is at camera.start() with a thread     *)
(*           that was started before, "run" otherwise                      *)
(*   mark:   the DUMP commands carried out when the session began          *)
(*   faults: the fault texts published to the status topic                 *)
(***************************************************************************)

\* The MQTT errors, failures of the camera and selections in one behaviour
MaxSessionEvents == 3

\* repr(e) of the exception the camera thread has failed with
FaultText == "GPhoto2Error"

InitSessions ==
    /\ InitMachine /\ budget = MaxSessionEvents /\ history = NoHistory
    /\ arg = [stage |-> "sessions",
              thread |-> [c \in Cameras |-> "new"],
              pc |-> [c \in Cameras |-> "run"],
              mark |-> [c \in Cameras |-> 0],
              faults |-> [c \in Cameras |-> 0]]
    /\ res = NoRes

\* main, the body of 'while True' up to camera.start().  A Thread can be
\* started once: camera.start() of a later session raises RuntimeError,
\* at once here when the thread is dead, in StartRaises when it runs.
SessionStart(c) ==
    /\ arg.stage = "sessions"
    /\ session[c] = "down"
    /\ mqIn' = to_observer(mqIn, [topic |-> "status", cam |-> c, payload |-> "online"])
    /\ camQueue' = [camQueue EXCEPT ![c] = Append(@, <<"DUMP", None>>)]
    /\ session' = [session EXCEPT ![c] = IF arg.thread[c] = "dead" THEN "exited" ELSE "up"]
    /\ arg' = [arg EXCEPT !.thread[c] = IF @ = "new" THEN "running" ELSE @,
                          !.pc[c] = IF arg.thread[c] = "running" THEN "start" ELSE "run",
                          !.mark[c] = history.served[c]]
    /\ UNCHANGED <<cam, old_status, camEvent, mqSet, mqDump>>
    /\ UNCHANGED <<observerVars, surfaceVars, threadVars, boundVars, res, history>>

\* main, camera.start() on the thread that runs already: RuntimeError is no
\* MqttError, so it leaves 'while True'; the client disconnects and main
\* raises
StartRaises(c) ==
    /\ arg.stage = "sessions"
    /\ session[c] = "up" /\ arg.pc[c] = "start"
    /\ session' = [session EXCEPT ![c] = "exited"]
    /\ arg' = [arg EXCEPT !.pc[c] = "run"]
    /\ mqSet' = [mqSet EXCEPT ![c] = <<>>]
    /\ mqDump' = [mqDump EXCEPT ![c] = 0]
    /\ UNCHANGED <<cam, old_status, camQueue, camEvent, mqIn>>
    /\ UNCHANGED <<observerVars, surfaceVars, threadVars, boundVars, res, history>>

\* The connection to the broker is lost: the tasks of the session raise
\* MqttError, main catches it and sleeps; the broker publishes the last will
MqttError(c) ==
    /\ arg.stage = "sessions"
    /\ session[c] \in {"up", "dying"} /\ arg.pc[c] = "run"
    /\ budget > 0
    /\ budget' = budget - 1
    /\ session' = [session EXCEPT ![c] = "down"]
    /\ mqIn' = to_observer(mqIn, [topic |-> "status", cam |-> c, payload |-> "offline"])
    /\ mqSet' = [mqSet EXCEPT ![c] = <<>>]
    /\ mqDump' = [mqDump EXCEPT ![c] = 0]
    /\ UNCHANGED <<cam, old_status, camQueue, camEvent>>
    /\ UNCHANGED <<observerVars, surfaceVars, threadVars, pureVars, history>>

\* Camera.run: an exception ends the camera thread; on_death sets the
\* exception of the future wait_for_camera_death awaits
CameraDeath(c) ==
    /\ arg.stage = "sessions"
    /\ arg.thread[c] = "running"
    /\ session[c] \in {"up", "down"} /\ arg.pc[c] = "run"
    /\ budget > 0
    /\ budget' = budget - 1
    /\ arg' = [arg EXCEPT !.thread[c] = "dead"]
    /\ session' = [session EXCEPT ![c] = IF @ = "up" THEN "dying" ELSE @]
    /\ UNCHANGED <<cam, old_status, camQueue, camEvent>>
    /\ UNCHANGED <<mqttVars, observerVars, surfaceVars, threadVars, res, history>>

\* wait_for_camera_death: the fault text is published to the status topic
\* and the exception is raised again; it ends gather, the session and main
ReportDeath(c) ==
    /\ arg.stage = "sessions"
    /\ session[c] = "dying"
    /\ mqIn' = to_observer(mqIn, [topic |-> "status", cam |-> c, payload |-> FaultText])
    /\ arg' = [arg EXCEPT !.faults[c] = @ + 1]
    /\ session' = [session EXCEPT ![c] = "exited"]
    /\ mqSet' = [mqSet EXCEPT ![c] = <<>>]
    /\ mqDump' = [mqDump EXCEPT ![c] = 0]
    /\ UNCHANGED <<cam, old_status, camQueue, camEvent>>
    /\ UNCHANGED <<observerVars, surfaceVars, threadVars, boundVars, res, history>>

\* Camera.run between two sessions, a queued 'DUMP': the status is taken and
\* the publish of on_camera_change and on_camera_allowed fails on the client
\* that is not connected
CameraOffline(c) ==
    /\ arg.stage = "sessions"
    /\ session[c] = "down" /\ arg.thread[c] = "running"
    /\ camQueue[c] # <<>>
    /\ Head(camQueue[c])[1] = "DUMP"
    /\ camQueue' = [camQueue EXCEPT ![c] = Tail(@)]
    /\ old_status' = [old_status EXCEPT ![c] = status_of(cam[c])]
    /\ UNCHANGED <<cam, camEvent, session>>
    /\ UNCHANGED <<mqttVars, observerVars, surfaceVars, threadVars, boundVars, pureVars>>
    /\ history' = [history EXCEPT !.served[c] = @ + 1]

NextSessions ==
    \/ \E c \in Cameras :
           \/ SessionStart(c)
           \/ StartRaises(c)
           \/ MqttError(c)
           \/ CameraDeath(c)
           \/ ReportDeath(c)
           \/ CameraOffline(c)
           \/ DoRepublish(c)
           \/ CameraDump(c)
    \/ Transport
    \/ Render
    \/ \E t \in Cameras : SelectCamera(t)

SpecSessions == InitSessions /\ [][NextSessions]_vars

\* main sleeps for a second and goes round 'while True'; the tasks of the
\* event loop run when there is something for them, and the camera thread
\* comes back to its queue after every wait_for_event
SessionFairness ==
    \A c \in Cameras :
        /\ WF_vars(SessionStart(c))
        /\ WF_vars(StartRaises(c))
        /\ WF_vars(ReportDeath(c))
        /\ WF_vars(CameraDump(c))

SpecSessionsFair == SpecSessions /\ SessionFairness


(***************************************************************************)
(* C22                                                                     *)
(***************************************************************************)

\* A camera is selected and both threads have finished their passes
SelectedAndIdle ==
    /\ target \in Cameras
    /\ ~rp.T.active /\ ~rp.H.active /\ hw.pc = "idle"

\* C22: once the status 'offline' of the selected camera is taken and
\* rendered, every ring is switched off; with any other status text, or none,
\* the rings of a camera whose values are known are not switched off.
C22_OnlyOfflineBlanksTheRings ==
    SelectedAndIdle =>
        /\ status[target] = "offline" => all_off
        /\ (status[target] # "offline" /\ data[target].cameramodel # None) => ~all_off

\* The last will of the selected camera has been taken and its pass is over
C22_Witness ==
    /\ SelectedAndIdle
    /\ session[target] = "down"
    /\ status[target] = "offline"
    /\ mqIn = <<>>
    /\ data[target].cameramodel # None
    /\ shown[2] = <<10, 3, 54>>


(***************************************************************************)
(* C23                                                                     *)
(***************************************************************************)

\* The step takes a message of camera/+/allowed of the selected camera from
\* the observer's queue
TakesAllowedOfSelected ==
    /\ mqIn # <<>> /\ mqIn' = Tail(mqIn)
    /\ Head(mqIn).topic = "allowed"
    /\ Head(mqIn).cam = target

\* The pass of thread th is at an encoder bound to a list of values, and the
\* value of the selected camera is in the list and has a position
ReadsKnownValue(th) ==
    /\ rp[th].active /\ rp[th].phase = "read"
    /\ rp[th].enc \in ListEncoders
    /\ value_index(rp[th].enc, [k \in CamProps |-> read_property(k)]) # NotFound
    /\ value_index(rp[th].enc, [k \in CamProps |-> read_property(k)])
           < Len(range_for(rp[th].enc))

camera_works(c) == arg.thread[c] # "dead"

\* The owner is in a session and has published its whole status in it
republished(c) == session[c] = "up" /\ history.served[c] > arg.mark[c]

\* C24: while its camera works, the owner never leaves main, and whenever it
\* is between two sessions it gets to a new session in which it publishes
\* its whole status, however many MQTT errors there have been.
C24_OwnerReconnectsForEver ==
    \A c \in Cameras :
        /\ [](camera_works(c) => session[c] # "exited")
        /\ (session[c] = "down" /\ camera_works(c))
               ~> (republished(c) \/ ~camera_works(c))

\* After an MQTT error the owner is connected again, with 'online' published
\* and a DUMP queued for the camera thread that still runs
C24_Witness ==
    \E c \in Cameras :
        /\ session[c] = "up" /\ arg.pc[c] = "start"
        /\ arg.thread[c] = "running"
        /\ camQueue[c] # <<>>
        /\ budget < MaxSessionEvents


(***************************************************************************)
(* C25                                                                     *)
(***************************************************************************)

\* C25: an owner whose camera thread has failed leaves main, and when it has
\* left it has published the fault text to its status topic exactly once.
C25_FaultIsPublishedOnce ==
    \A c \in Cameras :
        /\ [](arg.faults[c] <= 1)
        /\ []((~camera_works(c) /\ session[c] = "exited") => arg.faults[c] = 1)
        /\ ~camera_works(c) ~> session[c] = "exited"

\* The camera thread has failed in a session, the fault text has been
\* published and has reached the observer, and the owner has left main
C25_Witness ==
    \E c \in Cameras :
        /\ ~camera_works(c) /\ session[c] = "exited"
        /\ arg.faults[c] = 1
        /\ status[c] = FaultText


(***************************************************************************)
(* The set-requests the owner is sent, on their own: an owner whose camera *)
(* has no widget for the second white-balance shift is sent requests of    *)
(* other clients, and the observer takes what the owner publishes.         *)
(***************************************************************************)

\* The set-requests of other clients in one behaviour
MaxRequests == 2

\* The requests that are tried: a name that is in no table of the owner, a
\* read-only setting, a setting the camera has no widget for, a value the
\* camera does not offer, and a value it offers
Requests ==
    {<<"zoom", "1">>, <<"cameramodel", "Canon EOS R5">>,
     <<"whitebalanceadjustb", "1">>, <<"iso", "999">>, <<"iso", "125">>}

\* The setting the camera has no widget for
RequestsConfig == [InitialConfig EXCEPT !["whitebalanceadjustb"] = NoWidget]

InitRequests ==
    /\ cam = [c \in Cameras |-> RequestsConfig]
    /\ old_status = [c \in Cameras |-> NoStatus]
    /\ camQueue = [c \in Cameras |-> <<>>]
    /\ camEvent = [c \in Cameras |-> FALSE]
    /\ session = [c \in Cameras |-> "down"]
    /\ mqIn = <<>>
    /\ mqSet = [c \in Cameras |-> <<>>]
    /\ mqDump = [c \in Cameras |-> 0]
    /\ busUp = FALSE
    /\ data = [c \in Cameras |-> Placeholders]
    /\ allowed = [c \in Cameras |-> [k \in AllowedKeys |-> <<>>]]
    /\ status = [c \in Cameras |-> None]
    /\ target = Fake
    /\ selected_mode = [c \in Cameras |-> None]
    /\ faders = [e \in Encoders |-> VALUE_MID]
    /\ shown = [e \in Encoders |-> leds_special(e, "off")]
    /\ rp = [T |-> RenderIdle, H |-> RenderIdle]
    /\ hw = HwIdle
    /\ budget = MaxRequests /\ history = NoHistory /\ arg = NoArg /\ res = NoRes

NextRequests ==
    \/ \E c \in Cameras :
           \/ OwnerStart(c)
           \/ DoRepublish(c)
           \/ PushToCamera(c)
           \/ CameraEvent(c)
           \/ CameraDump(c)
           \/ CameraApply(c)
           \/ \E request \in Requests : ExternalSet(c, request[1], request[2])
    \/ Transport

SpecRequests == InitRequests /\ [][NextRequests]_vars

(***************************************************************************)
(* C26                                                                     *)
(***************************************************************************)

\* The owner of c takes a set-request from its subscription, and the name is
\* in none of its tables of writable settings
PushesUnknownName(c) ==
    /\ mqSet[c] # <<>> /\ mqSet'[c] = Tail(mqSet[c])
    /\ Head(mqSet[c])[1] \notin elements(PROPS_RW) \cup elements(PROPS_WO)

\* The camera thread of c takes a set-request from its queue, and the camera
\* has no widget of that name
AppliesUnsupported(c) ==
    /\ camQueue[c] # <<>> /\ camQueue'[c] = Tail(camQueue[c])
    /\ Head(camQueue[c])[1] # "DUMP"
    /\ cam[c][Head(camQueue[c])[1]] = NoWidget

\* The step writes nothing to a camera and publishes nothing, now or later:
\* no event of a camera becomes pending and no published status changes
nothing_applied ==
    /\ cam' = cam
    /\ camEvent' = camEvent
    /\ old_status' = old_status
    /\ mqIn' = mqIn
    /\ history'.sent = history.sent

\* C26: a set-request whose name is in no table of writable settings is
\* dropped by push_to_camera, and one for a setting the camera has no widget
\* for is dropped by apply_command: nothing is queued or written, and no
\* status is published for it.
C26_UnknownSettingIsDropped ==
    [][\A c \in Cameras :
          /\ PushesUnknownName(c) => (nothing_applied /\ camQueue' = camQueue)
          /\ AppliesUnsupported(c) => nothing_applied]_vars

\* A request for the setting the camera has no widget for has been taken by
\* the camera thread, and the camera is as it was
C26_Witness ==
    \E c \in Cameras :
        /\ history.request.prop = "whitebalanceadjustb"
        /\ history.request.state = "rejected"
        /\ cam[c] = RequestsConfig
        /\ camQueue[c] = <<>> /\ mqSet[c] = <<>> /\ ~camEvent[c]


(***************************************************************************)
(* xtouchmini.py: rotations of every speed.  Encoders in relative mode     *)
(* send 1 (gentle) to 7 (hard) to the right and 127 (gentle) to 121 (hard) *)
(* to the left.                                                            *)
(***************************************************************************)

\* The values of a rotation
SpeedValues == (1..7) \cup (121..127)

\* The messages that are tried: every encoder, every speed
SpeedMessages ==
    {control_change(10, control, value) : control \in 1..8, value \in SpeedValues}

\* MidiHandler.handle_midi_wheel, MIDI_CONTROL_FANCY: the focus command of
\* a turn of the wheel
handle_midi_wheel(diff) ==
    IF diff > 0
    THEN IF diff < 2 THEN "Far 1" ELSE IF diff < 4 THEN "Far 2" ELSE "Far 3"
    ELSE IF diff < 0
    THEN IF diff > -2 THEN "Near 1" ELSE IF diff > -4 THEN "Near 2" ELSE "Near 3"
    ELSE None

NextSpeeds == \E message \in SpeedMessages : OnMidi(message)

SpecSpeeds == InitSurface /\ [][NextSpeeds]_vars

(***************************************************************************)
(* C27                                                                     *)
(***************************************************************************)

\* The deltas of the rotations
SpeedDeltas == {delta_of(value) : value \in SpeedValues}

\* The command the steps of a rotation stand for
drive_command(d) ==
    CASE d = 1 -> "Far 1"
      [] d \in 2..3 -> "Far 2"
      [] d >= 4 -> "Far 3"
      [] d = -1 -> "Near 1"
      [] d \in -3..-2 -> "Near 2"
      [] d <= -4 -> "Near 3"

\* on_midi was given a rotation of the focus encoder
focus_rotated == arg.message # <<>> /\ arg.message[1].control = 1

\* C27: a rotation of the focus encoder by d asks for 'Far 1' (d = 1),
\* 'Far 2' (d in 2..3), 'Far 3' (d >= 4), 'Near 1' (d = -1), 'Near 2'
\* (d in -3..-2) or 'Near 3' (d <= -4), whatever was rotated before and
\* whatever the encoder stored; handle_midi_wheel selects the same commands.
C27_FocusCommandFollowsDelta ==
    /\ focus_rotated =>
           /\ ~res.raised
           /\ res.changes =
                  <<<<"movieservoaf", "Off">>,
                    <<"manualfocusdrive", drive_command(delta_of(arg.message[1].value))>>>>
    /\ \A d \in SpeedDeltas : handle_midi_wheel(d) = drive_command(d)

\* A second rotation, of the focus encoder four steps to the left, after
\* the first one: 'Near 3'
C27_Witness ==
    /\ budget = 0
    /\ arg.message = <<control_change(10, 1, 124)>>
    /\ res.changes[2] = <<"manualfocusdrive", "Near 3">>
    /\ faders[0] = VALUE_MID


(***************************************************************************)
(* C28                                                                     *)
(***************************************************************************)

\* The pass of thread th ends with this step: after its last encoder, or
\* with an exception
PassEnds(th) == rp[th].active /\ ~rp'[th].active

\* The pass of thread th has got past the test of cameramodel
renders_values(th) == rp[th].phase # "model"

\* The ring of the colour-temperature encoder after the step
colortemperature_ring == shown'[ENCODER_TO_FUNCTION.colortemperature]

\* What the white-balance mode of the values d lets the ring show: all lit
\* for 'Auto', the position (blink-all without a match) for 'Color
\* Temperature', blink-all for every other mode
ring_for_mode(d) ==
    LET e == ENCODER_TO_FUNCTION.colortemperature
    IN  IF d.whitebalance = "Auto" THEN leds_special(e, "all-on")
        ELSE IF d.whitebalance # "Color Temperature" THEN leds_special(e, "blink-all")
        ELSE IF value_index(e, d) = NotFound THEN leds_special(e, "blink-all")
        ELSE set_value_message(e, at(range_for(e), value_index(e, d)))

\* C28: when a pass that renders the values of the selected camera ends, the
\* colour-temperature ring shows all lit if the white-balance mode is 'Auto',
\* blink-all if it is neither 'Auto' nor 'Color Temperature', and the
\* position of the colour temperature (blink-all without a match) if it is
\* 'Color Temperature'.
C28_ModeDecidesColourTemperatureRing ==
    [][\A th \in {"T", "H"} :
          (PassEnds(th) /\ renders_values(th) /\ target \in Cameras)
              => colortemperature_ring = ring_for_mode(data[target])]_vars

\* A pass has ended after the camera went to automatic white balance, and the
\* ring of the colour temperature is all lit
C28_Witness ==
    /\ target \in Cameras
    /\ data[target].whitebalance = "Auto"
    /\ history.clean
    /\ ~rp.T.active /\ ~rp.H.active /\ hw.pc = "idle" /\ mqIn = <<>>
    /\ shown[ENCODER_TO_FUNCTION.colortemperature]
           = leds_special(ENCODER_TO_FUNCTION.colortemperature, "all-on")
    /\ shown[ENCODER_TO_FUNCTION.whitebalanceadjustb] # leds_special(7, "off")


(***************************************************************************)
(* xtouchmini.py: the buttons of the encoders.  on_midi is given rotations *)
(* of the two white-balance shift encoders, and note messages: note 0..7   *)
(* is the button of an encoder, 8..23 the two rows of buttons.  The shift  *)
(* encoders start at any position of their sub-range, where rotations and *)
(* render passes have left them.                                           *)
(***************************************************************************)

\* The messages given to on_midi in one behaviour
MaxPresses == 2

\* mido.Message('note_on' or 'note_off', note=note); the record has the
\* fields of control_change, with the note as its control
note_message(type, note) ==
    [type |-> type, channel |-> 10, control |-> note, value |-> 127]

\* The note messages that are tried: every encoder's button and one button
\* of the first row, down and up
NoteMessages == {note_message(type, note) : type \in {"note_on", "note_off"}, note \in 0..8}

\* The rotations that are tried: the two shift encoders, one step to the
\* right and one to the left
ShiftRotations ==
    {control_change(10, encoder + 1, value) :
        encoder \in {ENCODER_TO_FUNCTION.whitebalanceadjusta,
                     ENCODER_TO_FUNCTION.whitebalanceadjustb},
        value \in MidiValues}

InitButtons ==
    /\ cam = [c \in Cameras |-> InitialConfig]
    /\ old_status = [c \in Cameras |-> NoStatus]
    /\ camQueue = [c \in Cameras |-> <<>>]
    /\ camEvent = [c \in Cameras |-> FALSE]
    /\ session = [c \in Cameras |-> "down"]
    /\ mqIn = <<>>
    /\ mqSet = [c \in Cameras |-> <<>>]
    /\ mqDump = [c \in Cameras |-> 0]
    /\ busUp = FALSE
    /\ data = [c \in Cameras |-> Placeholders]
    /\ allowed = [c \in Cameras |-> [k \in AllowedKeys |-> <<>>]]
    /\ status = [c \in Cameras |-> None]
    /\ target = Fake
    /\ selected_mode = [c \in Cameras |-> None]
    /\ \E a \in elements(range_for(ENCODER_TO_FUNCTION.whitebalanceadjusta)) :
       \E b \in elements(range_for(ENCODER_TO_FUNCTION.whitebalanceadjustb)) :
           /\ faders = [e \in Encoders |->
                           IF e = ENCODER_TO_FUNCTION.whitebalanceadjusta THEN a
                           ELSE IF e = ENCODER_TO_FUNCTION.whitebalanceadjustb THEN b
                           ELSE VALUE_MID]
           /\ shown = [e \in Encoders |->
                          IF e = ENCODER_TO_FUNCTION.whitebalanceadjusta
                          THEN set_value_message(e, a)
                          ELSE IF e = ENCODER_TO_FUNCTION.whitebalanceadjustb
                          THEN set_value_message(e, b)
                          ELSE leds_special(e, "off")]
    /\ rp = [T |-> RenderIdle, H |-> RenderIdle]
    /\ hw = HwIdle
    /\ budget = MaxPresses /\ history = NoHistory
    /\ arg = [stage |-> "surface", message |-> <<>>, position |-> VALUE_MID]
    /\ res = [sent |-> <<>>, changes |-> <<>>, raised |-> FALSE]

\* XTouchMini.on_midi, note_on and note_off
OnNote(message) ==
    /\ arg.stage = "surface"
    /\ budget > 0
    /\ budget' = budget - 1
    /\ arg' = [arg EXCEPT !.message = <<message>>,
                          !.position = IF message.control \in Encoders
                                       THEN faders[message.control] ELSE @]
    /\ LET note == message.control
           function == function_for_encoder(note)
           r == value_for_position(note, VALUE_MID)
       IN  IF ~(note >= 0 /\ note <= 7 /\ message.type = "note_on")
           THEN /\ res' = [sent |-> <<>>, changes |-> <<>>, raised |-> FALSE]
                /\ UNCHANGED surfaceVars
           ELSE IF function = "colortemperature"
           THEN /\ shown' = [shown EXCEPT ![note] = leds_special(note, "all-on")]
                /\ res' = [sent |-> <<leds_special(note, "all-on")>>,
                           changes |-> <<<<"whitebalance", "Auto">>>>,
                           raised |-> FALSE]
                /\ UNCHANGED faders
           ELSE IF function \in {"whitebalanceadjusta", "whitebalanceadjustb"}
           THEN /\ faders' = [faders EXCEPT ![note] = VALUE_MID]
                /\ shown' = [shown EXCEPT ![note] = <<10, note + 1, VALUE_MID>>]
                /\ res' = [sent |-> <<<<10, note + 1, VALUE_MID>>>>,
                           changes |-> IF r.error THEN <<>> ELSE <<<<function, r.val>>>>,
                           raised |-> r.error]
           ELSE IF function = "focus"
           THEN /\ shown' = [shown EXCEPT ![note] = leds_special(note, "all-on")]
                /\ res' = [sent |-> <<leds_special(note, "all-on")>>,
                           changes |-> <<<<"movieservoaf", "On">>>>,
                           raised |-> FALSE]
                /\ UNCHANGED faders
           ELSE /\ res' = [sent |-> <<>>, changes |-> <<>>, raised |-> FALSE]
                /\ UNCHANGED surfaceVars
    /\ UNCHANGED <<ownerVars, mqttVars, observerVars, threadVars, history>>

NextButtons ==
    \/ \E message \in ShiftRotations : OnMidi(message)
    \/ \E message \in NoteMessages : OnNote(message)

SpecButtons == InitButtons /\ [][NextButtons]_vars

(***************************************************************************)
(* C29                                                                     *)
(***************************************************************************)

\* The two white-balance shift encoders
ShiftEncoders ==
    {ENCODER_TO_FUNCTION.whitebalanceadjusta, ENCODER_TO_FUNCTION.whitebalanceadjustb}

\* on_midi was given the press of the button of encoder e
pressed(e) == arg.message = <<note_message("note_on", e)>>

\* arg.position is the position the encoder of the note stored when on_midi
\* was called.
\* C29: after the press of the button of a white-balance shift encoder,
\* whatever position the encoder stored before, the stored position is 64,
\* the ring has been sent 64, and on_change has been called with the
\* encoder's function and '0' within the same call of on_midi.
C29_ShiftButtonRecentres ==
    \A e \in ShiftEncoders :
        pressed(e) =>
            /\ faders[e] = 64
            /\ shown[e] = set_value_message(e, 64)
            /\ res.sent = <<set_value_message(e, 64)>>
            /\ res.changes = <<<<function_for_encoder(e), "0">>>>
            /\ ~res.raised

\* The first shift encoder was rotated to the lowest position of its
\* sub-range and then pressed
C29_Witness ==
    /\ budget = 0
    /\ pressed(ENCODER_TO_FUNCTION.whitebalanceadjusta)
    /\ arg.position = at(range_for(ENCODER_TO_FUNCTION.whitebalanceadjusta), 0)
    /\ faders[ENCODER_TO_FUNCTION.whitebalanceadjusta] = VALUE_MID
    /\ res.changes = <<<<"whitebalanceadjusta", "0">>>>


(***************************************************************************)
(* gui.py: the life of MessageBus.  MessageBus.run runs main on an event   *)
(* loop of its own thread; the main thread waits for start_event, runs the *)
(* application and then calls request_exit and waits for the thread.  arg  *)
(* keeps the place of main (pc), the state of exit_future, whether its     *)
(* callback is among the callbacks the loop has ready, whether the loop is *)
(* blocked in its selector (asleep), the state of the five tasks, and the  *)
(* messages that wait in each subscription.                                *)
(***************************************************************************)

\* The messages that arrive in one behaviour
MaxBusEvents == 2

\* The tasks that consume a subscription, by their topic
Consumers == {"allowed", "current", "status", "tally-source"}

\* The tasks of main: the consumers and wait_for_requested_exit
BusTasks == Consumers \cup {"exit"}

InitBus ==
    /\ InitMachine /\ budget = MaxBusEvents /\ history = NoHistory /\ res = NoRes
    /\ arg = [stage |-> "bus", pc |-> "init", exit_future |-> "pending",
              ready |-> FALSE, asleep |-> FALSE, requested |-> FALSE,
              tasks |-> [t \in BusTasks |-> "none"],
              inbox |-> [t \in Consumers |-> 0]]

\* The event loop runs callbacks: it is not blocked in its selector
loop_runs == arg.stage = "bus" /\ ~arg.asleep

\* Nothing but arg and the bound changes
bus_only ==
    UNCHANGED <<ownerVars, mqttVars, observerVars, surfaceVars, threadVars, history, res>>

\* MessageBus.main up to start_event.set(): the client is entered, the
\* subscriptions are made and the five tasks are created
BusSetUp ==
    /\ loop_runs /\ arg.pc = "init"
    /\ arg' = [arg EXCEPT !.pc = "started", !.tasks = [t \in BusTasks |-> "created"]]
    /\ bus_only /\ UNCHANGED budget

\* A task runs for the first time: a consumer waits for a message;
\* wait_for_requested_exit awaits exit_future, and raises ShouldExit when it
\* is done already
TaskStart(t) ==
    /\ loop_runs /\ arg.pc \in {"started", "gather"} /\ arg.tasks[t] = "created"
    /\ arg' = [arg EXCEPT !.tasks[t] =
                   IF t = "exit" /\ arg.exit_future = "done" THEN "raised" ELSE "waiting"]
    /\ bus_only /\ UNCHANGED budget

\* main: publish of 'camera/dump-all', then asyncio.gather(*tasks)
BusGather ==
    /\ loop_runs /\ arg.pc = "started"
    /\ arg' = [arg EXCEPT !.pc = "gather"]
    /\ bus_only /\ UNCHANGED budget

\* A message arrives on the socket of the client, which wakes the loop
MessageArrives(t) ==
    /\ arg.stage = "bus" /\ arg.pc \in {"started", "gather"}
    /\ budget > 0
    /\ budget' = budget - 1
    /\ arg' = [arg EXCEPT !.inbox[t] = @ + 1, !.asleep = FALSE]
    /\ bus_only

\* A consumer takes a message of its subscription
Consume(t) ==
    /\ loop_runs /\ arg.pc \in {"started", "gather"}
    /\ arg.tasks[t] = "waiting" /\ arg.inbox[t] > 0
    /\ arg' = [arg EXCEPT !.inbox[t] = @ - 1]
    /\ bus_only /\ UNCHANGED budget

\* The loop has nothing to run and blocks in its selector
LoopSelect ==
    /\ loop_runs /\ arg.pc = "gather"
    /\ ~arg.ready
    /\ \A t \in BusTasks : arg.tasks[t] = "waiting"
    /\ \A t \in Consumers : arg.inbox[t] = 0
    /\ arg' = [arg EXCEPT !.asleep = TRUE]
    /\ bus_only /\ UNCHANGED budget

\* MessageBus.request_exit, on the main thread, after start_event:
\* exit_future.set_result(None).  The future is done, and the wake-up of the
\* task that awaits it is put among the ready callbacks with call_soon,
\* which does not wake a loop that is blocked.
request_exit ==
    /\ arg.stage = "bus" /\ arg.pc \in {"started", "gather"} /\ ~arg.requested
    /\ arg' = [arg EXCEPT !.requested = TRUE, !.exit_future = "done",
                          !.ready = (arg.tasks["exit"] = "waiting")]
    /\ bus_only /\ UNCHANGED budget

\* The loop runs the ready callback: wait_for_requested_exit raises ShouldExit
ExitObserved ==
    /\ loop_runs /\ arg.ready
    /\ arg' = [arg EXCEPT !.ready = FALSE, !.tasks["exit"] = "raised"]
    /\ bus_only /\ UNCHANGED budget

\* gather raises the ShouldExit of its task into main, which passes it and
\* leaves the AsyncExitStack: the subscriptions and the client are left
BusLeave ==
    /\ loop_runs /\ arg.pc = "gather" /\ arg.tasks["exit"] = "raised"
    /\ arg' = [arg EXCEPT !.pc = "cancel_tasks"]
    /\ bus_only /\ UNCHANGED budget

\* cancel_tasks: a task that is not done is cancelled and awaited
CancelTask(t) ==
    /\ loop_runs /\ arg.pc = "cancel_tasks"
    /\ arg.tasks[t] \in {"created", "waiting"}
    /\ arg' = [arg EXCEPT !.tasks[t] = "cancelled"]
    /\ bus_only /\ UNCHANGED budget

\* cancel_tasks has gone through the tasks: main and MessageBus.run return
BusReturn ==
    /\ loop_runs /\ arg.pc = "cancel_tasks"
    /\ \A t \in BusTasks : arg.tasks[t] \in {"cancelled", "raised"}
    /\ arg' = [arg EXCEPT !.pc = "returned"]
    /\ bus_only /\ UNCHANGED budget

NextBus ==
    \/ BusSetUp
    \/ \E t \in BusTasks : TaskStart(t)
    \/ BusGather
    \/ \E t \in Consumers : MessageArrives(t)
    \/ \E t \in Consumers : Consume(t)
    \/ LoopSelect
    \/ request_exit
    \/ ExitObserved
    \/ BusLeave
    \/ \E t \in BusTasks : CancelTask(t)
    \/ BusReturn

SpecBus == InitBus /\ [][NextBus]_vars

\* The loop runs what it has to run; messages and request_exit come when
\* they come
BusFairness ==
    /\ WF_vars(BusSetUp)
    /\ WF_vars(\E t \in BusTasks : TaskStart(t))
    /\ WF_vars(BusGather)
    /\ WF_vars(\E t \in Consumers : Consume(t))
    /\ WF_vars(ExitObserved)
    /\ WF_vars(BusLeave)
    /\ WF_vars(\E t \in BusTasks : CancelTask(t))
    /\ WF_vars(BusReturn)

SpecBusFair == SpecBus /\ BusFairness

(***************************************************************************)
(* C30                                                                     *)
(***************************************************************************)

\* MessageBus.run has returned with every task done
bus_returned ==
    /\ arg.pc = "returned"
    /\ \A t \in Consumers : arg.tasks[t] = "cancelled"
    /\ arg.tasks["exit"] = "raised"

MaxCommands == 3

\* The commands that are put on the queue: a DUMP, a value the camera
\* offers, one it does not offer, the automatic white balance, and the
\* colour temperature the camera has and another one
Commands ==
    {<<"DUMP", None>>, <<"iso", "125">>, <<"iso", "999">>, <<"whitebalance", "Auto">>,
     <<"colortemperature", "5200">>, <<"colortemperature", "5300">>}

\* A timeout that starts the next wait without a look at the queue
after_wait_skipping(event_type) == IF event_type = "GP_EVENT_TIMEOUT" THEN "wait" ELSE "queue"

\* Camera.run: every branch of the test of event_type goes on to the queue
after_wait(event_type) == "queue"

InitRun ==
    /\ InitMachine /\ budget = MaxCommands /\ history = NoHistory /\ res = NoRes
    /\ arg = [stage |-> "run", pc |-> [c \in Cameras |-> "wait"],
              other |-> [c \in Cameras |-> FALSE], put |-> <<>>, taken |-> <<>>]

\* Nothing of the observer, the surface and the histories changes
run_only ==
    UNCHANGED <<session, mqSet, mqDump, observerVars, surfaceVars, threadVars, history, res>>

\* push_to_camera, do_republish or main puts a command on the queue
Put(c, command) ==
    /\ arg.stage = "run"
    /\ budget > 0
    /\ budget' = budget - 1
    /\ camQueue' = [camQueue EXCEPT ![c] = Append(@, command)]
    /\ arg' = [arg EXCEPT !.put = Append(@, command)]
    /\ UNCHANGED <<cam, old_status, camEvent, mqIn>>
    /\ run_only

\* A setting is changed on the body of the camera, which reports an event
BodyChange(c, prop, value) ==
    /\ arg.stage = "run"
    /\ budget > 0
    /\ cam[c][prop] # value
    /\ budget' = budget - 1
    /\ cam' = [cam EXCEPT ![c][prop] = value]
    /\ camEvent' = [camEvent EXCEPT ![c] = TRUE]
    /\ UNCHANGED <<old_status, camQueue, mqIn, arg>>
    /\ run_only

\* The camera reports an event of another type
OtherEvent(c) ==
    /\ arg.stage = "run"
    /\ budget > 0 /\ ~arg.other[c]
    /\ budget' = budget - 1
    /\ arg' = [arg EXCEPT !.other[c] = TRUE]
    /\ UNCHANGED <<cam, old_status, camQueue, camEvent, mqIn>>
    /\ run_only

\* wait_for_event(10) returns the event that is pending, or times out
event_type(c) ==
    IF arg.other[c] THEN "other"
    ELSE IF camEvent[c] THEN "GP_EVENT_UNKNOWN"
    ELSE "GP_EVENT_TIMEOUT"

\* Camera.run: wait_for_event and the test of event_type
WaitForEvent(c) ==
    /\ arg.stage = "run" /\ arg.pc[c] = "wait"
    /\ arg' = [arg EXCEPT !.pc[c] = after_wait(event_type(c)), !.other[c] = FALSE]
    /\ IF event_type(c) = "GP_EVENT_UNKNOWN"
       THEN /\ camEvent' = [camEvent EXCEPT ![c] = FALSE]
            /\ old_status' = [old_status EXCEPT ![c] = status_of(cam[c])]
            /\ mqIn' = IF old_status[c] # status_of(cam[c])
                       THEN to_observer(mqIn, [topic |-> "current", cam |-> c,
                                               payload |-> status_of(cam[c])])
                       ELSE mqIn
       ELSE UNCHANGED <<camEvent, old_status, mqIn>>
    /\ UNCHANGED <<cam, camQueue, budget>>
    /\ run_only

\* Camera.run: queue.get(block=False) and apply_command
QueueCheck(c) ==
    /\ arg.stage = "run" /\ arg.pc[c] = "queue"
    /\ IF camQueue[c] = <<>>
       THEN /\ arg' = [arg EXCEPT !.pc[c] = "wait"]
            /\ UNCHANGED <<cam, old_status, camQueue, camEvent, mqIn>>
       ELSE LET what == Head(camQueue[c])[1]
                value == Head(camQueue[c])[2]
            IN  /\ arg' = [arg EXCEPT !.pc[c] = "wait", !.taken = Append(@, Head(camQueue[c]))]
                /\ camQueue' = [camQueue EXCEPT ![c] = Tail(@)]
                /\ IF what = "DUMP"
                   THEN /\ old_status' = [old_status EXCEPT ![c] = status_of(cam[c])]
                        /\ mqIn' = to_observer(to_observer(mqIn,
                               [topic |-> "current", cam |-> c, payload |-> status_of(cam[c])]),
                               [topic |-> "allowed", cam |-> c, payload |-> allowed_of(cam[c])])
                        /\ UNCHANGED <<cam, camEvent>>
                   ELSE /\ cam' = [cam EXCEPT ![c] = apply_command(@, what, value)]
                        /\ camEvent' = [camEvent EXCEPT ![c] = @ \/ is_applied(cam[c], what, value)]
                        /\ UNCHANGED <<old_status, mqIn>>
    /\ UNCHANGED budget
    /\ run_only

NextRun ==
    \E c \in Cameras :
        \/ \E command \in Commands : Put(c, command)
        \/ BodyChange(c, "shutterspeed", "1/60")
        \/ OtherEvent(c)
        \/ WaitForEvent(c)
        \/ QueueCheck(c)

SpecRun == InitRun /\ [][NextRun]_vars

\* The camera thread runs
RunFairness == \A c \in Cameras : WF_vars(WaitForEvent(c)) /\ WF_vars(QueueCheck(c))

SpecRunFair == SpecRun /\ RunFairness

(***************************************************************************)
(* C31                                                                     *)
(***************************************************************************)

\* The commands taken are the first of the commands put, in their order
taken_in_order ==
    /\ Len(arg.taken) <= Len(arg.put)
    /\ arg.taken = SubSeq(arg.put, 1, Len(arg.taken))

\* C31: every command put on the queue of the camera thread is taken and
\* handed to apply_command, in the order of the queue, also when the camera
\* reports no event and every wait_for_event times out.
C31_QueuedCommandsAreTaken ==
    /\ [](arg.stage = "run" => taken_in_order)
    /\ \A k \in 1..(MaxCommands + 1) : (Len(arg.put) >= k) ~> (Len(arg.taken) >= k)

\* Three commands were put and taken, none of which changed the camera: the
\* camera has reported no event at all
C31_Witness ==
    /\ arg.stage = "run"
    /\ budget = 0
    /\ Len(arg.put) = MaxCommands /\ arg.taken = arg.put
    /\ \A c \in Cameras : cam[c] = InitialConfig /\ ~camEvent[c]
    /\ arg.put[1] = <<"iso", "999">> /\ arg.put[2] = <<"DUMP", None>>


(***************************************************************************)
(* C32                                                                     *)
(***************************************************************************)

\* The pass of thread th has read a value of the selected camera and will
\* read another one: it is past the test of cameramodel and about to read
\* the value of an encoder or the white-balance mode
BetweenReads(th) == rp[th].active /\ rp[th].phase \in {"read", "wb"}

\* C32: no pass reads values of two snapshots of the selected camera: while a
\* pass is between two of its reads, the stored values of the camera do not
\* change.
C32_PassReadsOneSnapshot ==
    [][\A th \in {"T", "H"} :
          (BetweenReads(th) /\ target \in Cameras /\ target' = target)
              => data'[target] = data[target]]_vars

\* The pass of the hardware thread has sent the ring of the shutter speed and
\* goes on to read the values of the next encoders, and the ring does not
\* show the shutter speed stored now: update_data has stored a later
\* snapshot in between, and the pass it started has not written yet
C32_Witness ==
    /\ target \in Cameras
    /\ rp.H.active /\ rp.H.phase = "read" /\ rp.H.enc >= 4
    /\ rp.T.active /\ rp.T.phase = "model"
    /\ renderable(data[target])
    /\ ~shows_value(ENCODER_TO_FUNCTION.shutterspeed, data[target])


(***************************************************************************)
(* C33                                                                     *)
(***************************************************************************)

\* No thread is between the store and the send of do_set_value
no_send_pending ==
    /\ hw.pc # "send"
    /\ \A th \in {"T", "H"} : ~(rp[th].active /\ rp[th].phase = "send")

\* The last command sent to encoder e is a position command
position_sent(e) ==
    \/ shown[e][1] = 10
    \/ shown[e] \in {leds_special(e, "blink-left"), leds_special(e, "blink-right")}

\* C33: whatever the interleaving of the hardware callback thread and the
\* transport thread, once every do_set_value that was begun has sent its
\* command, the last position command sent to an encoder is the one of the
\* position the encoder stores.
C33_LastPositionSentIsStored ==
    no_send_pending =>
        \A e \in Encoders : position_sent(e) => shown[e] = set_value_message(e, faders[e])

\* Both threads are idle and nothing is in flight, and the ring of the
\* shutter speed shows a position other than the one the encoder stores
C33_Witness ==
    /\ target \in Cameras
    /\ ~rp.T.active /\ ~rp.H.active /\ hw.pc = "idle" /\ mqIn = <<>>
    /\ position_sent(ENCODER_TO_FUNCTION.shutterspeed)
    /\ shown[ENCODER_TO_FUNCTION.shutterspeed]
           # set_value_message(ENCODER_TO_FUNCTION.shutterspeed,
                               faders[ENCODER_TO_FUNCTION.shutterspeed])


(***************************************************************************)
(* xtouchmini.py: rotations from every position.  One list-backed encoder  *)
(* starts at any position it can hold, where earlier rotations and render  *)
(* passes have left it, and on_midi is given rotations of the encoders.    *)
(***************************************************************************)

\* The rotations in one behaviour
MaxTurns == 2

\* The rotations that are tried: every list-backed encoder, one step to the
\* right and one to the left
TurnMessages ==
    {control_change(10, e + 1, value) : e \in ListEncoders, value \in MidiValues}

InitTurns ==
    /\ cam = [c \in Cameras |-> InitialConfig]
    /\ old_status = [c \in Cameras |-> NoStatus]
    /\ camQueue = [c \in Cameras |-> <<>>]
    /\ camEvent = [c \in Cameras |-> FALSE]
    /\ session = [c \in Cameras |-> "down"]
    /\ mqIn = <<>>
    /\ mqSet = [c \in Cameras |-> <<>>]
    /\ mqDump = [c \in Cameras |-> 0]
    /\ busUp = FALSE
    /\ data = [c \in Cameras |-> Placeholders]
    /\ allowed = [c \in Cameras |-> [k \in AllowedKeys |-> <<>>]]
    /\ status = [c \in Cameras |-> None]
    /\ target = Fake
    /\ selected_mode = [c \in Cameras |-> None]
    /\ \E e \in ListEncoders : \E p \in positions(e) :
           /\ faders = [x \in Encoders |-> IF x = e THEN p ELSE VALUE_MID]
           /\ shown = [x \in Encoders |->
                          IF x = e THEN set_value_message(e, p) ELSE leds_special(x, "off")]
    /\ rp = [T |-> RenderIdle, H |-> RenderIdle]
    /\ hw = HwIdle
    /\ budget = MaxTurns /\ history = NoHistory
    /\ arg = [stage |-> "surface", message |-> <<>>]
    /\ res = [sent |-> <<>>, changes |-> <<>>, raised |-> FALSE]

NextTurns == \E message \in TurnMessages : OnMidi(message)

SpecTurns == InitTurns /\ [][NextTurns]_vars

(***************************************************************************)
(* C34                                                                     *)
(***************************************************************************)

\* The encoder of the rotation on_midi was given
turned == arg.message[1].control - 1

\* C34: after every rotation of a list-backed encoder, from whatever position
\* it stored, on_midi has not raised, and it has called on_change once with
\* the function of the encoder and a member of its value list: the entry at
\* the index of the stored position within the sub-range.
C34_RotationAsksForListMember ==
    arg.message # <<>> =>
        /\ ~res.raised
        /\ Len(res.changes) = 1
        /\ res.changes[1][1] = function_for_encoder(turned)
        /\ contains(results(turned), res.changes[1][2])
        /\ index(results(turned), res.changes[1][2])
               = index(range_for(turned), faders[turned])

\* The ISO encoder was turned to the right up to the last position of its
\* sub-range, the 27th, for which the 26 values of the ISO list have no
\* entry: on_midi has raised and on_change was not called
C34_Witness ==
    /\ arg.message = <<control_change(10, ENCODER_TO_FUNCTION.iso + 1, 1)>>
    /\ faders[ENCODER_TO_FUNCTION.iso] = last(range_for(ENCODER_TO_FUNCTION.iso))
    /\ Len(range_for(ENCODER_TO_FUNCTION.iso)) = Len(results(ENCODER_TO_FUNCTION.iso)) + 1
    /\ res.raised /\ res.changes = <<>>


(***************************************************************************)
(* C35                                                                     *)
(***************************************************************************)

\* The observer has taken the answer of the selected camera's owner to
\* dump-all: its status and its allowed values
absorbed ==
    /\ target \in Cameras
    /\ session[target] = "up"
    /\ history.served[target] >= 1
    /\ data[target] = status_of(cam[target])
    /\ \A p \in elements(PROPS_RW) : allowed[target][p] = choices(p)

\* on_midi makes its second call of on_change for a rotation of the focus
\* encoder
AsksForDrive == hw.pc = "focus" /\ hw'.pc # "focus"

\* C35: once the answer of the selected camera to dump-all is taken, a
\* rotation of the focus encoder publishes the set-request for
\* manualfocusdrive with the command of the rotation's delta.
C35_FocusRotationIsPublished ==
    [][(AsksForDrive /\ absorbed)
          => mqSet'[target] =
                 Append(mqSet[target], <<"manualfocusdrive", focus_value(hw.delta)>>)]_vars

\* The focus encoder of a camera whose answer was taken has been rotated:
\* the request for servo AF off is published, none for manualfocusdrive, and
\* the pass of the rejection begins on the hardware thread
C35_Witness ==
    /\ absorbed
    /\ budget = 0
    /\ hw.pc = "idle" /\ rp.H.active /\ rp.H.phase = "model"
    /\ faders[ENCODER_TO_FUNCTION.focus] = VALUE_MID
    /\ shown[ENCODER_TO_FUNCTION.focus] = leds_special(ENCODER_TO_FUNCTION.focus, "blink-center")
    /\ mqSet[target] = <<<<"movieservoaf", "Off">>>>
    /\ allowed[target]["manualfocusdrive"] = <<>>


(***************************************************************************)
(* C36                                                                     *)
(***************************************************************************)

\* The camera thread of c takes a set-request for a colour temperature the
\* camera offers
TakesColourTemperature(c) ==
    /\ arg.stage = "run" /\ arg.pc[c] = "queue" /\ arg'.pc[c] = "wait"
    /\ camQueue[c] # <<>>
    /\ Head(camQueue[c])[1] = "colortemperature"
    /\ contains(choices("colortemperature"), Head(camQueue[c])[2])

\* C36: once the camera thread has handled a set-request for a colour
\* temperature the camera offers, the white-balance mode of the camera is
\* 'Color Temperature', also when the camera had that colour temperature
\* already.
C36_ColourTemperatureSelectsMode ==
    [][\A c \in Cameras :
          TakesColourTemperature(c) => cam'[c].whitebalance = "Color Temperature"]_vars

\* The camera was put to automatic white balance and then asked for the
\* colour temperature it has: both commands are taken, and the mode is
\* still 'Auto'
C36_Witness ==
    /\ arg.stage = "run"
    /\ arg.taken = <<<<"whitebalance", "Auto">>, <<"colortemperature", "5200">>>>
    /\ \A c \in Cameras :
           /\ cam[c].colortemperature = "5200"
           /\ cam[c].whitebalance = "Auto"
           /\ camQueue[c] = <<>>


(***************************************************************************)
(* gui.py: the relative steps of the GUI on their own.  A camera whose     *)
(* status and allowed values the observer has taken is selected; its ISO   *)
(* and white-balance mode are any the camera offers.                       *)
(***************************************************************************)

\* The actions of the GUI in one behaviour
MaxSteps == 2

\* The settings adjust_relative is called for
SteppedProps == {"iso", "whitebalance", "aperture"}

\* The modes that are selected in the GUI
SteppedModes == {"iso", "aperture", "wb"}

InitSteps ==
    /\ \E c \in Cameras :
       \E iso \in elements(choices("iso")) :
       \E wb \in elements(choices("whitebalance")) :
           /\ cam = [x \in Cameras |->
                        [InitialConfig EXCEPT !["iso"] = iso, !["whitebalance"] = wb]]
           /\ target = c
    /\ old_status = [c \in Cameras |-> status_of(cam[c])]
    /\ camQueue = [c \in Cameras |-> <<>>]
    /\ camEvent = [c \in Cameras |-> FALSE]
    /\ session = [c \in Cameras |-> "up"]
    /\ mqIn = <<>>
    /\ mqSet = [c \in Cameras |-> <<>>]
    /\ mqDump = [c \in Cameras |-> 0]
    /\ busUp = TRUE
    /\ data = [c \in Cameras |-> status_of(cam[c])]
    /\ allowed = [c \in Cameras |->
                     store_allowed([k \in AllowedKeys |-> <<>>], allowed_of(cam[c]))]
    /\ status = [c \in Cameras |-> "online"]
    /\ selected_mode = [c \in Cameras |-> None]
    /\ faders = [e \in Encoders |-> VALUE_MID]
    /\ shown = [e \in Encoders |-> leds_special(e, "off")]
    /\ rp = [T |-> RenderIdle, H |-> RenderIdle]
    /\ hw = HwIdle
    /\ budget = MaxSteps /\ history = NoHistory /\ arg = NoArg /\ res = NoRes

NextSteps ==
    \/ \E what \in SteppedProps : \E delta \in {-1, 1} : AdjustRelative(what, delta)
    \/ \E key \in {"left", "right"} : HandleKey(key)
    \/ \E mode \in SteppedModes : SetSelectedMode(mode)

SpecSteps == InitSteps /\ [][NextSteps]_vars

(***************************************************************************)
(* C37                                                                     *)
(***************************************************************************)

\* v is next to the current value of what in the allowed values of camera c
adjacent(c, what, v) ==
    LET idx == index(allowed[c][what], data[c][what])
    IN  /\ idx # NotFound
        /\ \E delta \in {-1, 1} :
               /\ idx + delta >= 0 /\ idx + delta < Len(allowed[c][what])
               /\ at(allowed[c][what], idx + delta) = v

\* C37: a step of adjust_relative or handle_key publishes nothing, or a
\* set-request for a value next to the current one in the allowed values
\* that is not 'Auto'.
C37_RelativeStepNeverAsksForAuto ==
    [][\A c \in Cameras :
          mqSet'[c] # mqSet[c] =>
              /\ mqSet'[c] = Append(mqSet[c], last(mqSet'[c]))
              /\ adjacent(c, last(mqSet'[c])[1], last(mqSet'[c])[2])
              /\ last(mqSet'[c])[2] # "Auto"]_vars

\* With the mode 'iso' selected and the camera at ISO 100, the key 'left'
\* has published a set-request for 'Auto'
C37_Witness ==
    /\ target \in Cameras
    /\ selected_mode[target] = "iso"
    /\ data[target].iso = "100"
    /\ at(allowed[target]["iso"], 0) = "Auto"
    /\ mqSet[target] = <<<<"iso", "Auto">>>>
    /\ budget = 0


(***************************************************************************)
(* xtouchmini.py: rotation messages whose raw value is 0, among gentle     *)
(* rotations to either side.                                               *)
(***************************************************************************)

\* The raw value of a rotation event that decodes to the delta 0
STILL == 0

\* The messages that are tried: every encoder, no rotation and one step to
\* either side
StillMessages ==
    {control_change(10, control, value) :
        control \in 1..8, value \in MidiValues \cup {STILL}}

NextStill == \E message \in StillMessages : OnMidi(message)

SpecStill == InitSurface /\ [][NextStill]_vars

(***************************************************************************)
(* C38                                                                     *)
(***************************************************************************)

\* C38: a rotation message of an encoder whose raw value is 0 (delta 0)
\* leaves the stored position of every encoder as it was and calls on_change
\* for nothing.
C38_StillRotationChangesNothing ==
    [][\A message \in StillMessages :
          (Receives(message) /\ message.value = STILL) =>
              /\ faders' = faders
              /\ res'.changes = <<>>]_vars

\* A message with the raw value 0 for the ISO encoder at the central
\* position moved it one position down and asked for the value there
C38_Witness ==
    /\ arg.message = <<control_change(10, 5, STILL)>>
    /\ budget = MaxMidi - 1
    /\ faders[4] = last(SelectSeq(range_for(4), LAMBDA x : x < VALUE_MID))
    /\ res.changes = <<<<"iso", value_for_position(4, faders[4]).val>>>>


(***************************************************************************)
(* gui.py, MessageBus.main, and tally.py, do_republish: the start of the   *)
(* observer, one await at a time, against an owner that is connected and   *)
(* subscribed to camera/dump-all.  The broker forwards a message to the    *)
(* observer only on a topic it has subscribed to at the moment of the      *)
(* publication, and the client of the observer hands a message to the      *)
(* generator of filtered_messages of its topic.  Every dump-all carries    *)
(* who published it: the observer or another client.                       *)
(***************************************************************************)

\* The dump-all messages of other clients in one behaviour
MaxOtherDumps == 2

\* The topics the observer subscribes to, in the order of main
StartTopics == <<"allowed", "current", "status", "tally-source">>

\* The topics an owner answers a dump-all on: on_config_changed publishes
\* the status of the camera, then on_dump_allowed the allowed values
DumpTopics == <<"current", "allowed">>

\* A main that would publish camera/dump-all before it subscribes
main_publishing_first ==
    <<<<"connect", None>>>>
    \o [i \in 1..Len(StartTopics) |-> <<"handler", StartTopics[i]>>]
    \o <<<<"publish", "dump-all">>>>
    \o [i \in 1..Len(StartTopics) |-> <<"subscribe", StartTopics[i]>>]
    \o <<<<"start_event", None>>, <<"gather", None>>>>

\* MessageBus.main: what it awaits or does, in the order of the code
main ==
    <<<<"connect", None>>>>
    \o [i \in 1..Len(StartTopics) |-> <<"handler", StartTopics[i]>>]
    \o [i \in 1..Len(StartTopics) |-> <<"subscribe", StartTopics[i]>>]
    \o <<<<"start_event", None>>, <<"publish", "dump-all">>, <<"gather", None>>>>

InitStartup ==
    /\ InitMachine /\ budget = MaxOtherDumps /\ history = NoHistory
    /\ arg = [stage |-> "startup", pc |-> 1, handlers |-> {}, subscribed |-> {},
              asked |-> <<>>, queue |-> <<>>, inbox |-> <<>>]
    /\ res = [handled |-> {}, lost |-> {}]

\* Nothing but arg and res changes
startup_only ==
    UNCHANGED <<ownerVars, mqttVars, observerVars, surfaceVars, threadVars, history>>

\* MessageBus.main runs up to its next await
MainStep ==
    /\ arg.stage = "startup" /\ arg.pc <= Len(main)
    /\ LET step == main[arg.pc]
       IN  arg' = [arg EXCEPT
                      !.pc = @ + 1,
                      !.handlers = IF step[1] = "handler" THEN @ \cup {step[2]} ELSE @,
                      !.subscribed = IF step[1] = "subscribe" THEN @ \cup {step[2]} ELSE @,
                      !.asked = IF step[1] = "publish" THEN Append(@, "observer") ELSE @]
    /\ startup_only /\ UNCHANGED <<budget, res>>

\* Another client publishes camera/dump-all
OtherDump ==
    /\ arg.stage = "startup"
    /\ budget > 0
    /\ budget' = budget - 1
    /\ arg' = [arg EXCEPT !.asked = Append(@, "other")]
    /\ startup_only /\ UNCHANGED res

\* do_republish: a dump-all message queues a DUMP
Republish ==
    /\ arg.stage = "startup" /\ arg.asked # <<>>
    /\ arg' = [arg EXCEPT !.asked = Tail(@), !.queue = Append(@, Head(arg.asked))]
    /\ startup_only /\ UNCHANGED <<budget, res>>

\* The answers to a dump-all of origin, as the broker treats them: forwarded
\* to the observer on the topics it has subscribed to, and gone on the others
answers(origin, forwarded) ==
    LET all == [i \in 1..Len(DumpTopics) |-> [topic |-> DumpTopics[i], origin |-> origin]]
    IN  SelectSeq(all, LAMBDA m : (m.topic \in arg.subscribed) = forwarded)

\* Camera.run takes a DUMP: apply_command publishes the status and the
\* allowed values
ServeDump ==
    /\ arg.stage = "startup" /\ arg.queue # <<>>
    /\ arg' = [arg EXCEPT !.queue = Tail(@),
                          !.inbox = @ \o answers(Head(arg.queue), TRUE)]
    /\ res' = [res EXCEPT !.lost = @ \cup elements(answers(Head(arg.queue), FALSE))]
    /\ startup_only /\ UNCHANGED budget

\* The client of the observer takes a message from the broker: it goes to
\* the generator of filtered_messages of its topic, when there is one
Dispatch ==
    /\ arg.stage = "startup" /\ arg.inbox # <<>>
    /\ arg' = [arg EXCEPT !.inbox = Tail(@)]
    /\ res' = IF Head(arg.inbox).topic \in arg.handlers
              THEN [res EXCEPT !.handled = @ \cup {Head(arg.inbox)}]
              ELSE [res EXCEPT !.lost = @ \cup {Head(arg.inbox)}]
    /\ startup_only /\ UNCHANGED budget

NextStartup == MainStep \/ OtherDump \/ Republish \/ ServeDump \/ Dispatch

SpecStartup == InitStartup /\ [][NextStartup]_vars

(***************************************************************************)
(* C39                                                                     *)
(***************************************************************************)

\* main has published camera/dump-all
dump_all_published ==
    \E i \in 1..(arg.pc - 1) : main[i] = <<"publish", "dump-all">>

\* C39: when the observer has published camera/dump-all, the handlers and
\* the subscriptions of the allowed, current and status topics are in place;
\* no answer of an owner to the dump-all of the observer is published on a
\* topic the observer is not subscribed to, and none reaches the observer
\* without a handler.
C39_DumpAllFollowsSubscriptions ==
    /\ dump_all_published =>
           {"allowed", "current", "status"} \subseteq (arg.handlers \cap arg.subscribed)
    /\ \A m \in res.lost : m.origin # "observer"

\* The answers to the dump-all of the observer have reached their handlers,
\* while an answer to the dump-all of another client, published before the
\* observer had subscribed, is gone
C39_Witness ==
    /\ dump_all_published
    /\ [topic |-> "current", origin |-> "observer"] \in res.handled
    /\ [topic |-> "allowed", origin |-> "observer"] \in res.handled
    /\ [topic |-> "current", origin |-> "other"] \in res.lost


(***************************************************************************)
(* gui.py: the lock of a CameraManager.  Three threads call its methods:   *)
(* the transport thread (update_camera_screen, update_camera_allowed,      *)
(* update_camera_status), the hardware callback thread (on_midi_change,    *)
(* select_camera) and the GUI thread (handle_key, the properties read by   *)
(* the views).  A method is the sequence of what it does to the lock and   *)
(* of the signals it emits; a thread runs one instruction at a time.       *)
(* camera_changed is connected to propagate_to_midi directly, so the pass  *)
(* runs on the thread that emits; last_changed_changed is connected to the *)
(* start of a timer by a queued connection, so nothing runs on the thread  *)
(* that emits.                                                             *)
(***************************************************************************)

\* The calls of methods in one behaviour
MaxCalls == 3

LockThreads == {"T", "H", "G"}

\* The calls each thread makes
calls(th) ==
    CASE th = "T" -> {"update_data", "update_data_empty", "store_allowed"}
      [] th = "H" -> {"adjust_absolute", "adjust_relative", "adjust_relative_refused",
                      "select_camera", "propagate_to_midi"}
      [] th = "G" -> {"handle_key", "handle_key_refused", "read_property"}

\* CameraManager.read_property
read_property_body == <<"acquire", "read", "release">>

\* MiniMidiHandler.propagate_to_midi: read_property of 'cameramodel', of
\* 'movieservoaf', of the seven settings of the encoders and of
\* 'whitebalance'
propagate_to_midi_reads == 10

\* A body that would emit camera_changed inside the 'with' of update_data
body_emitting_locked(op) ==
    CASE op = "update_data" ->
             <<"acquire", "write", "last_changed_changed", "camera_changed", "release">>
      [] op = "update_data_empty" -> <<"acquire", "camera_changed", "release">>
      [] op = "read_property" -> read_property_body
      [] op = "store_allowed" -> <<"acquire", "store", "release">>
      [] op \in {"adjust_relative", "handle_key"} ->
             <<"acquire", "send", "last_changed_changed", "release">>
      [] op \in {"adjust_relative_refused", "handle_key_refused"} ->
             <<"acquire", "release">>
      [] op = "adjust_absolute" -> <<"send", "last_changed_changed">>
      [] op = "select_camera" -> <<"camera_changed">>
      [] op = "propagate_to_midi" -> <<"propagate_to_midi">>

\* What a method does, in the order of the code
body(op) ==
    CASE op = "read_property" -> read_property_body
      [] op = "update_data" ->
             <<"acquire", "write", "last_changed_changed", "release", "camera_changed">>
      [] op = "update_data_empty" -> <<"acquire", "release", "camera_changed">>
      [] op = "store_allowed" -> <<"acquire", "store", "release">>
      [] op = "adjust_relative" ->
             <<"acquire", "send", "last_changed_changed", "release">>
      [] op = "adjust_relative_refused" -> <<"acquire", "release">>
      [] op = "adjust_absolute" -> <<"send", "last_changed_changed">>
      [] op = "handle_key" -> <<"acquire", "send", "last_changed_changed", "release">>
      [] op = "handle_key_refused" -> <<"acquire", "release">>
      [] op = "select_camera" -> <<"camera_changed">>
      [] op = "propagate_to_midi" -> <<"propagate_to_midi">>

RECURSIVE reads(_)
\* n calls of read_property, one after the other
reads(n) == IF n = 0 THEN <<>> ELSE read_property_body \o reads(n - 1)

InitLock ==
    /\ InitMachine /\ budget = MaxCalls /\ history = NoHistory /\ res = NoRes
    /\ arg = [stage |-> "lock", lock |-> None,
              stack |-> [th \in LockThreads |-> <<>>],
              emitted |-> [th \in LockThreads |-> FALSE]]

\* Nothing but arg and the bound changes
lock_only ==
    UNCHANGED <<ownerVars, mqttVars, observerVars, surfaceVars, threadVars, history, res>>

\* A thread that runs nothing calls a method
Call(th, op) ==
    /\ arg.stage = "lock" /\ arg.stack[th] = <<>>
    /\ budget > 0
    /\ budget' = budget - 1
    /\ arg' = [arg EXCEPT !.stack[th] = body(op), !.emitted[th] = FALSE]
    /\ lock_only

\* A thread runs its next instruction; 'with self._lock' waits while
\* another thread, or the thread itself, holds the lock
Run(th) ==
    /\ arg.stage = "lock" /\ arg.stack[th] # <<>>
    /\ LET i == Head(arg.stack[th])
           rest == Tail(arg.stack[th])
       IN  CASE i = "acquire" ->
                    /\ arg.lock = None
                    /\ arg' = [arg EXCEPT !.lock = th, !.stack[th] = rest]
             [] i = "release" ->
                    arg' = [arg EXCEPT !.lock = None, !.stack[th] = rest]
             [] i = "camera_changed" ->
                    arg' = [arg EXCEPT !.stack[th] = <<"propagate_to_midi">> \o rest,
                                       !.emitted[th] = TRUE]
             [] i = "propagate_to_midi" ->
                    arg' = [arg EXCEPT !.stack[th] = reads(propagate_to_midi_reads) \o rest]
             [] OTHER ->
                    arg' = [arg EXCEPT !.stack[th] = rest]
    /\ lock_only /\ UNCHANGED budget

NextLock ==
    \/ \E th \in LockThreads : \E op \in calls(th) : Call(th, op)
    \/ \E th \in LockThreads : Run(th)

SpecLock == InitLock /\ [][NextLock]_vars

\* Every thread that can run its next instruction does so at some time
LockFairness == \A th \in LockThreads : WF_vars(Run(th))

SpecLockFair == SpecLock /\ LockFairness

(***************************************************************************)
(* C40                                                                     *)
(***************************************************************************)

\* The thread is at 'with self._lock'
waits(th) == arg.stack[th] # <<>> /\ Head(arg.stack[th]) = "acquire"

\* C40: the thread that holds the lock of the CameraManager is never about
\* to emit camera_changed nor at a 'with self._lock', and holds it only
\* inside a method; every thread that waits for the lock gets it.
C40_NoThreadBlocksForever ==
    /\ [](\A th \in LockThreads :
             arg.lock = th =>
                 /\ arg.stack[th] # <<>>
                 /\ Head(arg.stack[th]) \notin {"camera_changed", "acquire"})
    /\ \A th \in LockThreads : waits(th) ~> (arg.lock = th)

\* The transport thread holds the lock in the pass that followed its
\* emission of camera_changed, while the two other threads wait for it
C40_Witness ==
    /\ arg.lock = "T" /\ arg.emitted["T"]
    /\ waits("H") /\ waits("G")

====
